---- MODULE Spec2Model ----
(***************************************************************************)
(* Model of the prepayment collection scripts.                             *)
(*                                                                         *)
(*   part_000                                                              *)
(*     the Archive/Retry Manager: pre-sweep, newest-file selection,        *)
(*     parse, dispatch, post-dispatch archival, over any number of runs    *)
(*                                                          -> Spec        *)
(*     the Submission Dispatcher: the for loop over the records of one     *)
(*     file and postJsonWithRetry, POST by POST             -> DispatchSpec*)
(*   GetPrepaymentSOCollectionInvoiceList.js                               *)
(*     fetchAllRecords (paginated fetcher)                  -> FetchSpec   *)
(*     soItemLimit / acctLimit / flagLimit (p-limit pools)  -> PoolSpec    *)
(*     processNormalScenario / processScenarioB / main      -> PipeSpec    *)
(*                                                                         *)
(* The specifications share the variables below; the parts a specification *)
(* does not exercise stay parked in a fixed state.                         *)
(***************************************************************************)
EXTENDS Integers, Sequences, FiniteSets, TLC

\* ------------------------------------------------------------------ bounds
MaxFiles == 2   \* extract files that ever exist under the output root
MaxRows  == 2   \* data rows of one extract file
MaxPages == 3   \* pages the remote collection is served in
MaxPageLen == 2 \* records of one page
MaxUnits == 13  \* units submitted to one pool

\* ------------------------------------------------------------------- state
VARIABLES
  \* Archive/Retry Manager (part_000 main)
  roster,        \* rows of CompanyCodeList.xlsx (immutable during the runs)
  files,         \* every extract file ever written: <<[part, nrows, mtime]>>
                 \* (nrows = -1: a file that cannot be read or parsed)
  folder,        \* ids of the files in their partition folder
  archive,       \* ids of the files present in their partition's archive folder
  archNames,     \* the names in the archive folders: <<file, time stamp>>
  pc,            \* position of main() of part_000
  sweepIdx,      \* sweepArchiveAll: index of the subfolder being swept
  olds,          \* archiveOldCsvs: files still to be moved
  ri,            \* index of the roster row of the for loop
  active,        \* newestName of the current row (0: none)
  lastMove,      \* outcome of the archiveCsv of the loop body ("none")
  \* Submission Dispatcher (the for loop over records, postJsonWithRetry)
  records,       \* number of parsed records of the active file
  rec,           \* index of the record being posted
  attempt,       \* postJsonWithRetry: attempt
  successCount,  \* successCount of the current roster row
  postResult,    \* how postJsonWithRetry settled (NoResult: not yet): the
                 \* response it returned or the error it threw, [how, at, kind]
                 \* with at: the POST of the call that produced it
  \* history of the environment, not read by the program
  postLog,       \* outcome of every POST issued for the current record
  acked,         \* records of the active file with a successful POST, this run
  tried,         \* records of the active file for which a POST was issued
  inflight,      \* records with a POST issued and not yet settled
  sendLog,       \* the record of every POST issued, in the order of issue
  delivered,     \* delivered[f]: for a file f in a partition folder, its rows
                 \* that had a successful POST, in this run or an earlier one
  \* fetchAllRecords
  pages,         \* the response bodies the server returns, page by page
  fpc,           \* position of fetchAllRecords
  nextLink,      \* nextLink (0: undefined or null)
  all,           \* all
  getLog,        \* every http.get issued: <<[page, outcome]>>
  \* one pool made by pLimit
  pool,          \* which of soItemLimit, acctLimit, flagLimit
  nSubmitted,    \* units handed to the pool so far, numbered in that order
  queue,         \* units waiting in the pool
  running,       \* units whose function has been called and has not settled
  \* GetPrepaymentSOCollectionInvoiceList.js main()
  rows,          \* rows of CompanyCodeList.xlsx as the data script reads them
  remote,        \* what the remote API holds: [orders, billing, flags]
  dpc,           \* position of main()
  npc,           \* position of processNormalScenario
  bpc,           \* position of processScenarioB
  nCand,         \* processedResults
  nRes,          \* how each flag unit of the normal path settled
  bCand,         \* scenarioBResults
  bRes,          \* how each flag unit of the Scenario-B path settled
  outFiles,      \* the extract files written by this run, per partition
  \* configuration and network activity of one run
  cfg,           \* what config.yaml holds: [creds, endpoints, automation]
  cpc,           \* position of the run
  gets,          \* whether the data script issued a GET in this run
  posts,         \* whether the manager issued a POST in this run
  \* the two scenario paths of the data script and the three pools
  stageRows,     \* the rows of the workbook of this run
  stagePos,      \* per path: index of the step of the path it is at
  stageWaiting,  \* per path: whether it is suspended in an await
  outstanding,   \* per path: its units handed out and not yet settled
  limitQueue,    \* per pool: the units waiting for admission, oldest first
  unitsRunning,  \* per unit: how many of it are running
  rejectedBy,    \* per path: the stage of the unit whose failure rejected
                 \* the path ("none": not rejected)
  \* one partition folder and its archive folder, as the file system holds them
  minute,        \* the wall clock, in minutes (the writer's time stamp)
  msClock,       \* the wall clock, in milliseconds (mtime, Date.now())
  dirFiles,      \* partition folder: file name -> [content, mtime]
  archFiles,     \* archive folder: archived name -> content
  created,       \* the contents the writer has written so far
  mv,            \* the moveFileSafe call in progress: [src, dest, kind]
  mpc,           \* position of moveFileSafe
  fsLog,         \* the fs calls of the move in progress: <<[op, ok]>>
  \* one accounting lookup of processNormalScenario and its flag-filter unit
  acctResults,   \* resp.data.d.results of the accounting lookup
  jpc,           \* position: "start", "joined", "lookup", "dropped"
  acctDoc,       \* AccountingDocument of the candidate
  warnings,      \* the warnings logged by the unit
  \* which of the two copies of the data script runs
  variant,       \* "current": src/GetPrepaymentSOCollectionInvoiceList.js,
                 \* "part_001": unnamed/part_001
  \* one collection read of a stage executor
  readKind,      \* which read it is
  readPages,     \* the pages the server holds for it
  received,      \* the records the executor got
  rlink,         \* the continuation link held by the read
  rpc,           \* position: "start", "follow", "done"
  \* processNormalScenario for one row of the workbook, up to the accounting
  \* fan-out
  companyCode,   \* CompanyCode of the row
  filteroutSO,   \* config.filteroutSO
  headers,       \* the headers the server holds for the partition
  itemsOfSO,     \* per sales order (as text): its line items on the server
  validHeaders,  \* the headers kept by the header filter
  unitsLeft,     \* indices of validHeaders whose item unit has not settled
  finalList,     \* the shared accumulator of the item units
  acctLookups,   \* the accounting lookups handed to acctLimit
  apc,           \* position: "start", "items", "fanout", "acct"
  \* processScenarioB for one billing document of one row, steps 2 and 3
  xrefRows,      \* the cross-reference rows the server holds for it
  itemsB,        \* per sales order: the line items the server holds
  flatResults,   \* the skeletons of step 2
  soLeft,        \* the sales orders whose item unit has not settled
  salesOrderItemsMap, \* per sales order with a successful lookup: its itemMap
  transformedResults, \* the candidates of the row
  bjpc,          \* position: "step2", "step3", "done"
  \* one extract file from the writer to the payloads of the manager
  csvRecords,    \* the records of one partition handed to the writer
  csvContent,    \* the text of the file, as a sequence of characters
  parsedRows,    \* what parseCsv returns
  payloads,      \* the payloads built from the parsed rows
  csvpc            \* position: "write", "parse", "payload", "done"

fsVars == <<roster, files, folder, archive, archNames, sweepIdx, olds, ri,
            active, lastMove, delivered>>

mgrVars == <<fsVars, pc>>

loopVars == <<records, rec, attempt, postResult, postLog, tried, inflight, sendLog>>

coreVars == <<mgrVars, loopVars, successCount, acked>>

fetchVars == <<pages, fpc, nextLink, all, getLog>>

poolVars == <<pool, nSubmitted, queue, running>>

pipeVars == <<rows, remote, dpc, npc, bpc, nCand, nRes, bCand, bRes, outFiles>>

cfgVars == <<cfg, cpc, gets, posts>>

stageVars == <<stageRows, stagePos, stageWaiting, outstanding, limitQueue,
               unitsRunning, rejectedBy>>

fileVars == <<minute, msClock, dirFiles, archFiles, created, mv, mpc, fsLog>>

joinVars == <<acctResults, jpc, acctDoc, warnings>>

readVars == <<readKind, readPages, received, rlink, rpc>>

normVars == <<companyCode, filteroutSO, headers, itemsOfSO, validHeaders,
              unitsLeft, finalList, acctLookups, apc>>

bjoinVars == <<xrefRows, itemsB, flatResults, soLeft, salesOrderItemsMap,
               transformedResults, bjpc>>

csvVars == <<csvRecords, csvContent, parsedRows, payloads, csvpc>>

tailVars == <<variant, readVars, normVars, bjoinVars, csvVars>>

notCsvVars == <<coreVars, fetchVars, poolVars, pipeVars, cfgVars, stageVars,
                fileVars, joinVars, variant, readVars, normVars, bjoinVars>>

notBJoinVars == <<coreVars, fetchVars, poolVars, pipeVars, cfgVars, stageVars,
                  fileVars, joinVars, variant, readVars, normVars, csvVars>>

notNormVars == <<coreVars, fetchVars, poolVars, pipeVars, cfgVars, stageVars,
                 fileVars, joinVars, variant, readVars, bjoinVars, csvVars>>

notReadVars == <<coreVars, fetchVars, poolVars, pipeVars, cfgVars, stageVars,
                 fileVars, joinVars, variant, normVars, bjoinVars, csvVars>>

lateVars == <<fileVars, joinVars, tailVars>>

extraVars == <<cfgVars, stageVars, lateVars>>

notFileVars == <<coreVars, fetchVars, poolVars, pipeVars, cfgVars, stageVars,
                 joinVars, tailVars>>

notJoinVars == <<coreVars, fetchVars, poolVars, pipeVars, cfgVars, stageVars,
                 fileVars, tailVars>>

otherVars == <<fetchVars, poolVars, pipeVars, extraVars>>

vars == <<coreVars, otherVars>>

\* ------------------------------------------------------ manager: helpers
Partitions == <<"P1", "P2">>

Row(code, invoiceType, scenario) ==
  [CompanyCode |-> code, InvoiceType |-> invoiceType, Scenario |-> scenario]

Rosters ==
  { << Row("P1", "EInvoice", "A"), Row("P2", "EInvoice", "B") >>,
    << Row("P1", "Paper",    "A"), Row("P2", "EInvoice", "A") >> }

Min(S) == CHOOSE x \in S : \A y \in S : x <= y

RECURSIVE SeqOfSet(_)
SeqOfSet(S) == IF S = {} THEN <<>> ELSE <<Min(S)>> \o SeqOfSet(S \ {Min(S)})

\* faulty variant: the listing also returns what the archive subfolder holds
CsvsIn_WithArchive(p) == { f \in folder \cup archive : files[f].part = p }

\* fs.readdirSync(dirPath).filter(csv): the extract files of a partition folder
CsvsIn(p) == { f \in folder : files[f].part = p }

\* faulty variant: sorted ascending, [0] is the oldest
NewestOf_Oldest(S) ==
  CHOOSE f \in S : \A g \in S :
     \/ files[g].mtime > files[f].mtime
     \/ (files[g].mtime = files[f].mtime /\ f <= g)

\* files sorted by mtime descending, [0]: the newest (stable: first listed wins)
NewestOf(S) ==
  CHOOSE f \in S : \A g \in S :
     \/ files[g].mtime < files[f].mtime
     \/ (files[g].mtime = files[f].mtime /\ f <= g)

\* faulty variant: the newest file is not excluded from the files to archive
OldsOf_KeepNone(S, keep) == SeqOfSet(S)

\* const olds = files.filter(f => f !== keep), in readdir order
OldsOf(S, keep) == SeqOfSet(S \ {keep})

MoveOutcomes == {"renamed", "copied", "copyFailed", "unlinkFailed"}

\* moveFileSafe: whether the call threw
MoveThrew(o) == o \in {"copyFailed", "unlinkFailed"}

\* moveFileSafe: the source is gone after rename, or after copy and unlink
SrcAfterMove(f, o) ==
  IF o \in {"renamed", "copied"} THEN folder \ {f} ELSE folder

\* moveFileSafe: the destination exists after rename or after copyFile
DestAfterMove(f, o) ==
  IF o \in {"renamed", "copied", "unlinkFailed"} THEN archive \cup {f} ELSE archive

HasNewerSibling(f) ==
  \E g \in folder : /\ g # f
                    /\ files[g].part = files[f].part
                    /\ files[g].mtime > files[f].mtime

\* `${path.parse(f).name}.${ts}.csv`
ArchivedName(f, ts) == <<f, ts>>

\* const ts = Date.now(): the time of the move, which is no file's
\* modification time (those are 1, 2, ...)
Now == 0

\* the move of file f with outcome o to the archive name stamped ts
MoveFile(f, o, ts) ==
  /\ folder' = SrcAfterMove(f, o)
  /\ archive' = DestAfterMove(f, o)
  /\ archNames' = IF o \in {"renamed", "copied", "unlinkFailed"}
                  THEN archNames \cup {ArchivedName(f, ts)}
                  ELSE archNames
  /\ delivered' = [g \in SrcAfterMove(f, o) |-> delivered[g]]

\* ---------------------------------------------------- dispatcher: helpers
Retries == 2          \* { retries: 2, backoffMs: 1500 }

NoResult == [how |-> "none", at |-> 0, kind |-> "none"]

\* what a failed axios.post rejects with: the timeout, a transport error
\* without a response, a response with a non-success status
ErrKinds == {"timeout", "network", "http"}

\* faulty variant: gives up one attempt early
RetryExhausted_Early(a) == a >= Retries

\* postJsonWithRetry: if (attempt > retries) throw err;
RetryExhausted(a) == a > Retries

\* faulty variant: a failed record ends the loop
AfterCatch_Break(r, n) == n + 1

\* the catch block of the for loop: "continue to next record"
AfterCatch(r, n) == r + 1

\* the for loop over records, as a whole: out[r] is how postJsonWithRetry
\* settles for record r if it is called; the result is
\* [count: successCount, ok: the records posted, seen: the records tried]
RECURSIVE RunLoop(_, _, _, _)
RunLoop(out, r, n, acc) ==
  IF r > n THEN acc
  ELSE IF out[r] = "resp"
       THEN RunLoop(out, r + 1, n,
              [count |-> acc.count + 1, ok |-> acc.ok \cup {r},
               seen |-> acc.seen \cup {r}])
       ELSE RunLoop(out, AfterCatch(r, n), n,
              [acc EXCEPT !.seen = @ \cup {r}])

\* faulty variant: archives whatever the number of successful posts
ShouldArchive_Always(n) == n >= 0

\* if (successCount > 0) await archiveCsv(dirPath, newestName);
ShouldArchive(n) == n > 0

\* ------------------------------------------------- fetchAllRecords: helpers
\* a response body: data.value and data['@odata.nextLink'] (V4), data.d.results
\* and data.d.__next (V2); a link is the number of the page it leads to, 0: none
V4Body(recs, nxt) ==
  [hasValue |-> TRUE, value |-> recs, odataNext |-> nxt,
   hasResults |-> FALSE, results |-> <<>>, dNext |-> 0]

V2Body(recs, nxt) ==
  [hasValue |-> FALSE, value |-> <<>>, odataNext |-> 0,
   hasResults |-> TRUE, results |-> recs, dNext |-> nxt]

\* the records of page k: <<k, 1>>, <<k, 2>>, ...
PageRecs(k, n) == [j \in 1..n |-> <<k, j>>]

\* a server that returns Len(sz) pages, page k with sz[k] records
Served(env, sz) ==
  [k \in 1..Len(sz) |->
     LET nxt == IF k < Len(sz) THEN k + 1 ELSE 0
     IN IF env = "V4" THEN V4Body(PageRecs(k, sz[k]), nxt)
                      ELSE V2Body(PageRecs(k, sz[k]), nxt)]

Servers ==
  { Served(env, sz) : env \in {"V4", "V2"},
                      sz \in UNION { [1..n -> 0..MaxPageLen] : n \in 1..MaxPages } }

\* the records a page carries, in whichever envelope
RecsOf(data) == IF data.hasValue THEN data.value ELSE data.results

RECURSIVE ConcatPages(_, _)
ConcatPages(ps, k) ==
  IF k > Len(ps) THEN <<>> ELSE RecsOf(ps[k]) \o ConcatPages(ps, k + 1)

\* faulty variant: the link of the first page is not followed
FirstPageResult_NoFollow(data) ==
  [all |-> IF data.hasValue THEN data.value ELSE <<>>, nextLink |-> 0]

\* the first page: value is pushed if it is an array; the V2 fallback pushes
\* d.results only when there is no V4 link and d.__next is set
FirstPageResult(data) ==
  LET a1 == IF data.hasValue THEN data.value ELSE <<>>
      v2 == data.odataNext = 0 /\ data.dNext # 0
  IN [all |-> IF v2 /\ data.hasResults THEN a1 \o data.results ELSE a1,
      nextLink |-> IF v2 THEN data.dNext ELSE data.odataNext]

\* a page of the while loop
NextPageResult(acc, data) ==
  IF data.hasValue
  THEN [all |-> acc \o data.value, nextLink |-> data.odataNext]
  ELSE IF data.hasResults
       THEN [all |-> acc \o data.results, nextLink |-> data.dNext]
       ELSE [all |-> acc, nextLink |-> 0]

\* ------------------------------------------------------------ pools: helpers
Pools == {"soItemLimit", "acctLimit", "flagLimit"}

\* const soItemLimit = pLimit(12); acctLimit, flagLimit alike
CeilingOf(p) == 12

Range(q) == { q[i] : i \in 1..Len(q) }

\* faulty variant: the functions of a batch are called directly, not through the pool
Submitted_Direct(q, run, batch) ==
  [queue |-> q, running |-> run \cup Range(batch)]

\* xs.map(x => limit(async () => { ... })): every unit of the batch is handed
\* to the pool, in order
Submitted(q, run, batch) ==
  [queue |-> q \o batch, running |-> run]

PoolParked ==
  /\ pool = "none"
  /\ nSubmitted = 0
  /\ queue = <<>>
  /\ running = {}

\* --------------------------------------------------------- pipeline: helpers
PipeRow(code, scenario, checkFlagNA) ==
  [CompanyCode |-> code, Scenario |-> scenario, CheckFlagNA |-> checkFlagNA]

\* the last one lists the same partition code twice
PipeRosters ==
  { << PipeRow("P1", "A", "No"),  PipeRow("P2", "B", "No") >>,
    << PipeRow("P1", "A", "Yes"), PipeRow("P2", "B", "Yes") >>,
    << PipeRow("P1", "A", "Yes"), PipeRow("P2", "B", "No") >>,
    << PipeRow("P1", "A", "No"),  PipeRow("P2", "B", "Yes") >>,
    << PipeRow("P1", "A", "No"),  PipeRow("P1", "A", "No") >> }

NoDoc == "null"

AcctDocs == {"D1", "D2"}

NoFY == "null"

\* strings made of digits only
DigitStrings == {"2024"}

\* rec.__metadata.id as its key='value' segments; <<>>: no id
Segment(k, v) == [key |-> k, value |-> v]

IdWithYear == << Segment("CompanyCode", "P1"), Segment("FiscalYear", "2024") >>

IdWithoutYear == << Segment("CompanyCode", "P1") >>

\* idStr.match(/FiscalYear='(\d+)'/): the digits of the first such segment
FiscalYearOfId(id) ==
  LET hits == { i \in 1..Len(id) :
                  id[i].key = "FiscalYear" /\ id[i].value \in DigitStrings }
  IN IF hits = {} THEN NoFY
     ELSE id[CHOOSE i \in hits : \A j \in hits : i <= j].value

\* what the header, item and accounting-document requests yield for one
\* sales-order line: the accounting document of the row with a negative
\* amount and its __metadata.id
Order(so, item, doc, id) ==
  [SalesOrder |-> so, SalesOrderItem |-> item, AccountingDocument |-> doc,
   MetadataId |-> id]

\* a cross-reference row of a billing document
XRef(so, item, doc, fy) ==
  [SalesDocument |-> so, SalesDocumentItem |-> item, AccountingDocument |-> doc,
   FiscalYear |-> fy]

FlagRow(status, sf, inv) ==
  [Statuscode |-> status, FlagSFUpdated |-> sf, FlagInvoiceSent |-> inv]

\* the outcome of a request to the flag endpoint: it failed, or d.results
FlagAnswer(isOk, res) == [ok |-> isOk, results |-> res]

FlagAnswers ==
  { FlagAnswer(FALSE, <<>>), FlagAnswer(TRUE, <<>>) } \cup
  { FlagAnswer(TRUE, <<r>>) :
      r \in { FlagRow("Open", "No", "No"),  FlagRow("Open", "Yes", "No"),
              FlagRow("Open", "No", "Yes"), FlagRow("Open", "NA", "No"),
              FlagRow("Open", "No", "NA"),  FlagRow("Paid", "No", "No"),
              FlagRow("Sent", "No", "No"),  FlagRow("Error", "No", "No") } }

\* the sales-order lines of sales organization P1
OrderWorlds ==
  { <<>>,
    << Order("S1", 10, "D1", IdWithYear) >>,
    << Order("S1", 10, "D1", IdWithYear), Order("S2", 10, "D2", IdWithYear) >>,
    << Order("S1", 10, NoDoc, <<>>), Order("S2", 10, "D2", IdWithYear) >>,
    << Order("S1", 10, "D1", IdWithoutYear) >> }

\* the cleared Scenario-B billing documents of sales organization P2, each
\* with its cross-reference rows
BillingWorlds ==
  { <<>>,
    << << XRef("S3", 10, "D1", "2024") >> >>,
    << << XRef("S3", 10, "D1", "2024") >>, << XRef("S3", 10, "D2", "2024") >> >>,
    << << XRef("S3", 10, "D1", "2024"), XRef("", 20, "D2", "2024") >> >>,
    << << XRef("S3", 10, "D1", NoFY) >> >> }

Remotes ==
  { [orders |-> o, billing |-> b, flags |-> f] :
      o \in OrderWorlds, b \in BillingWorlds, f \in [AcctDocs -> FlagAnswers] }

\* rows.filter(row => row.Scenario !== 'B') / rows.filter(row => row.Scenario === 'B')
NormalRows(rs) == SelectSeq(rs, LAMBDA r : r.Scenario # "B")

ScenarioBRows(rs) == SelectSeq(rs, LAMBDA r : r.Scenario = "B")

\* faulty variant: the policy flag of any row of the workbook
CheckFlagNAOf_Any(rs, code) ==
  \E i \in 1..Len(rs) : rs[i].CheckFlagNA = "Yes"

\* companyCodeConfigMap.get(code)?.CheckFlagNA === 'Yes': a later row of the
\* workbook overwrites an earlier one with the same CompanyCode
CheckFlagNAOf(rs, code) ==
  LET idx == { i \in 1..Len(rs) : rs[i].CompanyCode = code }
  IN idx # {} /\ rs[CHOOSE i \in idx : \A j \in idx : j <= i].CheckFlagNA = "Yes"

Candidate(code, so, item, doc, fy) ==
  [CompanyCode |-> code, SalesOrder |-> so, SalesOrderItem |-> item,
   AccountingDocument |-> doc, FiscalYear |-> fy]

\* what the remote holds for a sales organization
OrdersOf(rem, code) == IF code = "P1" THEN rem.orders ELSE <<>>

BillingOf(rem, code) == IF code = "P2" THEN rem.billing ELSE <<>>

\* processNormalScenario up to processedResults: one candidate per
\* sales-order line, roster row by roster row
RECURSIVE NormalProcessed(_, _, _)
NormalProcessed(rs, rem, k) ==
  IF k > Len(rs) THEN <<>>
  ELSE LET os == OrdersOf(rem, rs[k].CompanyCode)
       IN [i \in 1..Len(os) |->
             Candidate(rs[k].CompanyCode, os[i].SalesOrder,
                       os[i].SalesOrderItem, os[i].AccountingDocument,
                       FiscalYearOfId(os[i].MetadataId))]
          \o NormalProcessed(rs, rem, k + 1)

\* step 2 of one billing document: the cross-reference rows with a
\* non-blank SalesDocument, or nothing when the request failed
RECURSIVE FlatResults(_, _, _, _)
FlatResults(code, docs, ok2, d) ==
  IF d > Len(docs) THEN <<>>
  ELSE (IF ok2[d]
        THEN LET valid == SelectSeq(docs[d], LAMBDA x : x.SalesDocument # "")
             IN [i \in 1..Len(valid) |->
                   Candidate(code, valid[i].SalesDocument,
                             valid[i].SalesDocumentItem,
                             valid[i].AccountingDocument,
                             valid[i].FiscalYear)]
        ELSE <<>>)
       \o FlatResults(code, docs, ok2, d + 1)

\* processScenarioB up to scenarioBResults: ok1[k] tells whether step 1 of
\* roster row k succeeded (a failure skips the row), ok2[d] whether step 2 of
\* its d-th billing document did
RECURSIVE ScenarioBProcessed(_, _, _, _, _)
ScenarioBProcessed(rs, rem, ok1, ok2, k) ==
  IF k > Len(rs) THEN <<>>
  ELSE (IF ok1[k]
        THEN FlatResults(rs[k].CompanyCode, BillingOf(rem, rs[k].CompanyCode),
                         ok2, 1)
        ELSE <<>>)
       \o ScenarioBProcessed(rs, rem, ok1, ok2, k + 1)

NoFlagRow ==
  [Statuscode |-> "undefined", FlagSFUpdated |-> "undefined",
   FlagInvoiceSent |-> "undefined"]

\* const fr = resp.data?.d?.results?.[0] || {};
FirstOrEmpty(results) == IF results = <<>> THEN NoFlagRow ELSE results[1]

DisallowedStatuses == {"Paid", "Sent", "Error"}

\* faulty variant: only one of the two flag fields is looked at
IsAnyFlagYes_OnlySF(fr, checkFlagNA) ==
  \/ fr.FlagSFUpdated = "Yes"
  \/ (checkFlagNA /\ (fr.FlagSFUpdated = "NA" \/ fr.FlagInvoiceSent = "NA"))

\* isAnyFlagYes, with the 'NA' values when CheckFlagNA is 'Yes'
IsAnyFlagYes(fr, checkFlagNA) ==
  \/ fr.FlagSFUpdated = "Yes"
  \/ fr.FlagInvoiceSent = "Yes"
  \/ (checkFlagNA /\ (fr.FlagSFUpdated = "NA" \/ fr.FlagInvoiceSent = "NA"))

\* const exclude = isDisallowedStatus || isAnyFlagYes;
FlagExclude(fr, checkFlagNA) ==
  fr.Statuscode \in DisallowedStatuses \/ IsAnyFlagYes(fr, checkFlagNA)

\* one unit of the flag filter: null, the candidate, or a rejection when the
\* request fails and the unit has no try/catch (catches = FALSE)
FlagUnit(c, rs, rem, catches) ==
  IF c.AccountingDocument = NoDoc THEN "null"
  ELSE LET a == rem.flags[c.AccountingDocument]
       IN IF ~a.ok THEN (IF catches THEN "null" ELSE "rejected")
          ELSE IF FlagExclude(FirstOrEmpty(a.results),
                              CheckFlagNAOf(rs, c.CompanyCode))
               THEN "null" ELSE "kept"

\* results.filter(Boolean)
Kept(cands, res) ==
  LET RECURSIVE K(_)
      K(i) == IF i > Len(cands) THEN <<>>
              ELSE (IF res[i] = "kept" THEN <<cands[i]>> ELSE <<>>) \o K(i + 1)
  IN K(1)

\* combinedFlagResults.reduce(...): grouped by CompanyCode, in order
Grouped(combined) ==
  [p \in { combined[i].CompanyCode : i \in 1..Len(combined) } |->
     SelectSeq(combined, LAMBDA c : c.CompanyCode = p)]

PipeParked ==
  /\ rows = <<>>
  /\ remote = <<>>
  /\ dpc = "idle"
  /\ npc = "idle"
  /\ bpc = "idle"
  /\ nCand = <<>>
  /\ nRes = <<>>
  /\ bCand = <<>>
  /\ bRes = <<>>
  /\ outFiles = <<>>

\* ---------------------------------------------------- configuration: helpers
\* the six paths main() of the data script requires under cpi.endpoints
DataEndpoints ==
  {"FilterSalesOrderHeader", "FilterSalesOrderItem", "GetAccountingDocument",
   "Flag", "ScenarioB", "GetSalesOrderB"}

\* config.yaml: whether credentials[env] is there, which of the data
\* endpoints are, and whether cpi.endpoints.PrepaymentAutomation is
Configs ==
  { [creds |-> c, endpoints |-> e, automation |-> a] :
      c \in BOOLEAN, e \in SUBSET DataEndpoints, a \in BOOLEAN }

\* main() of the data script: if (!creds) throw ...; if (!headerUrlPath ||
\* ...) throw ...
DataConfigOk(c) == c.creds /\ c.endpoints = DataEndpoints

\* main() of the manager: if (!automationUrl) { ...; return; }
ManagerConfigOk(c) == c.automation

CfgParked ==
  /\ cfg = <<>>
  /\ cpc = "idle"
  /\ gets = FALSE
  /\ posts = FALSE

\* ----------------------------------------------------------- stages: helpers
\* processNormalScenario ("A") and processScenarioB ("B")
Paths == {"A", "B"}

StageRosters ==
  { << PipeRow("P1", "A", "No"), PipeRow("P2", "A", "No"),
       PipeRow("P3", "B", "No") >>,
    << PipeRow("P1", "A", "No"), PipeRow("P2", "B", "No"),
       PipeRow("P3", "B", "No") >> }

Unit(path, stage, part) == [path |-> path, stage |-> stage, part |-> part]

StageNames == {"header", "billing", "item", "xref", "acct", "flag"}

AllUnits ==
  { Unit(pa, st, c) : pa \in Paths, st \in StageNames, c \in {"P1", "P2", "P3"} }

CodesOf(rs) == [i \in 1..Len(rs) |-> rs[i].CompanyCode]

Step(stage, parts) == [stage |-> stage, parts |-> parts]

\* the body of "for (const row of companyCodeRows)": its awaited steps, for
\* one partition after the other
RECURSIVE LoopSteps(_, _)
LoopSteps(codes, stages) ==
  IF codes = <<>> THEN <<>>
  ELSE [i \in 1..Len(stages) |-> Step(stages[i], <<Head(codes)>>)]
         \o LoopSteps(Tail(codes), stages)

\* the awaited steps of a path, in order: those of the partition loop, then
\* the fan-outs over the records of all its partitions
ProgramOf(path, rs) ==
  IF path = "A"
  THEN LET codes == CodesOf(NormalRows(rs))
       IN LoopSteps(codes, <<"header", "item">>)
            \o <<Step("acct", codes), Step("flag", codes)>>
  ELSE LET codes == CodesOf(ScenarioBRows(rs))
       IN LoopSteps(codes, <<"billing", "xref", "item">>)
            \o <<Step("flag", codes)>>

\* faulty variant: the functions are called directly, not through a pool
PoolOf_Direct(stage) == "none"

\* the pool a step hands its units to ("none": the request is awaited
\* directly)
PoolOf(stage) ==
  CASE stage = "item" -> "soItemLimit"
    [] stage = "acct" -> "acctLimit"
    [] stage = "xref" -> "flagLimit"
    [] stage = "flag" -> "flagLimit"
    [] OTHER -> "none"

\* how many units one partition gives to a step
UnitCounts(stage) ==
  CASE stage = "xref" -> {1, 3 * MaxUnits}
    [] stage = "item" -> {1, 2}
    [] OTHER -> {1}

RECURSIVE Copies(_, _)
Copies(u, n) == IF n = 0 THEN <<>> ELSE <<u>> \o Copies(u, n - 1)

RECURSIVE BatchOf(_, _, _, _)
BatchOf(path, stage, parts, n) ==
  IF parts = <<>> THEN <<>>
  ELSE Copies(Unit(path, stage, Head(parts)), n)
         \o BatchOf(path, stage, Tail(parts), n)

RECURSIVE Started(_, _)
Started(run, batch) ==
  IF batch = <<>> THEN run
  ELSE Started([run EXCEPT ![Head(batch)] = @ + 1], Tail(batch))

RECURSIVE CountOf(_, _)
CountOf(run, S) ==
  IF S = {} THEN 0
  ELSE LET u == CHOOSE x \in S : TRUE
       IN run[u] + CountOf(run, S \ {u})

RunningIn(p) == CountOf(unitsRunning, { u \in AllUnits : PoolOf(u.stage) = p })

RunningUnits == { u \in AllUnits : unitsRunning[u] > 0 }

\* whether the function of a unit, or the loop body around a directly awaited
\* request, catches the error of its request: every request of
\* processScenarioB is inside a try/catch, none of processNormalScenario is
Catches(path, stage) == path = "B"

\* the steps of the partition loop of processScenarioB that follow step 1
\* and are left out when the catch of the loop body is entered
SkippedAfterBilling == 2

\* faulty variant: the promise of the fan-out is not awaited
Awaited_Not(n) == TRUE

\* await Promise.all(...): resumes when every unit of the fan-out has settled
Awaited(n) == n = 0

StageParked ==
  /\ stageRows = <<>>
  /\ stagePos = <<>>
  /\ stageWaiting = <<>>
  /\ outstanding = <<>>
  /\ limitQueue = <<>>
  /\ unitsRunning = <<>>
  /\ rejectedBy = <<>>

\* ------------------------------------------------------ file system: helpers
MaxWrites == 2

\* the record sets a run of the writer can hold for the partition
Contents == {1, 2}

\* PrePayment_Collection_Invoice_A_<code>_<yyyyMMdd_HHmm>.csv: for one
\* partition the name is determined by the minute of the run
FileName(m) == m

NoMove == [src |-> 0, dest |-> <<0, 0>>, kind |-> "none"]

\* archiveOldCsvs (pre-sweep, superseded files) and archiveCsv (poison file,
\* post-dispatch)
OldKinds == {"presweep", "superseded"}

ActiveKinds == {"poison", "postDispatch"}

NewestIn(d) ==
  CHOOSE f \in DOMAIN d : \A g \in DOMAIN d : d[g].mtime <= d[f].mtime

\* archiveOldCsvs stamps the file's mtime, archiveCsv stamps Date.now()
StampOf(kind, f) ==
  IF kind \in OldKinds THEN dirFiles[f].mtime ELSE msClock

\* faulty variant: the copy is made whether the rename failed or not
AfterRename_Always(ok) == "copy"

\* try { rename } catch { copyFile; unlink }
AfterRename(ok) == IF ok THEN "done" ELSE "copy"

AfterCopy(ok) == IF ok THEN "unlink" ELSE "threw"

AfterUnlink(ok) == IF ok THEN "done" ELSE "threw"

\* fs.writeFileSync / rename / copyFile onto a path: the path holds the new
\* content, whatever it held before
Put(d, name, v) == [n \in DOMAIN d \cup {name} |-> IF n = name THEN v ELSE d[n]]

Without(d, name) == [n \in DOMAIN d \ {name} |-> d[n]]

FileParked ==
  /\ minute = 0
  /\ msClock = 0
  /\ dirFiles = <<>>
  /\ archFiles = <<>>
  /\ created = {}
  /\ mv = NoMove
  /\ mpc = "idle"
  /\ fsLog = <<>>

\* ---------------------------------------------------- accounting join: helpers
MaxAcctRows == 3

AcctRow(doc, amount) == [AccountingDocument |-> doc, amount |-> amount]

\* AmountInTransactionCurrency, in hundredths
Amounts == {-10000, -9990, 0, 10000}

\* the rows the accounting endpoint can return; the last one carries no
\* accounting document
AcctRows ==
  { AcctRow(d, a) : d \in AcctDocs, a \in Amounts } \cup { AcctRow("", -10000) }

AcctResultLists == UNION { [1..n -> AcctRows] : n \in 0..MaxAcctRows }

\* faulty variant: the row in second position is taken, whatever its amount
FindNegative_Second(results) == IF Len(results) >= 2 THEN 2 ELSE 0

\* results.find(r => r.AmountInTransactionCurrency < 0): the index of the
\* first such row (0: undefined)
FindNegative(results) ==
  LET negs == { i \in 1..Len(results) : results[i].amount < 0 }
  IN IF negs = {} THEN 0 ELSE Min(negs)

\* rec?.AccountingDocument || null
DocOf(results, i) ==
  IF i = 0 \/ results[i].AccountingDocument = "" THEN NoDoc
  ELSE results[i].AccountingDocument

RECURSIVE TotalAmount(_)
TotalAmount(results) ==
  IF results = <<>> THEN 0
  ELSE Head(results).amount + TotalAmount(Tail(results))

Abs(x) == IF x < 0 THEN -x ELSE x

\* Math.abs(totalAmount) > 0.01, in hundredths
SumThreshold == 1

\* if (results.length !== 2) console.warn(...)
ExpectedRows == 2

WarningsOf(results) ==
  (IF Len(results) # ExpectedRows THEN {"count"} ELSE {})
    \cup (IF Abs(TotalAmount(results)) > SumThreshold THEN {"sum"} ELSE {})

JoinParked ==
  /\ acctResults = <<>>
  /\ jpc = "idle"
  /\ acctDoc = NoDoc
  /\ warnings = {}

Variants == {"current", "part_001"}

\* part_001's processScenarioB returns scenarioBResults as collected; the
\* current script filters them by flag before returning
HasScenarioBFilter(v) == v = "current"

\* part_001 does not read the CheckFlagNA column of the workbook
PolicyRows(v, rs) ==
  IF v = "current" THEN rs
  ELSE [i \in 1..Len(rs) |-> [rs[i] EXCEPT !.CheckFlagNA = "No"]]

\* the collection reads of the two scenario paths: headers and line items
\* (Scenario A), billing documents, cross-references and line items
\* (Scenario B), accounting documents (Scenario A)
ReadKinds == {"header", "item", "billing", "xref", "itemB", "acct"}

\* the reads made with fetchAllRecords; the others are a single http.get
UsesFetcher(kind) == kind \in {"header", "item"}

\* what a single http.get keeps of the body: itemResp.data?.value || [] for
\* the Scenario-B line items, resp.data?.d?.results || [] for the others
PlainRead(kind, data) ==
  IF kind = "itemB" THEN (IF data.hasValue THEN data.value ELSE <<>>)
  ELSE (IF data.hasResults THEN data.results ELSE <<>>)

\* the envelope of the endpoint a read goes to
EnvelopesOf(kind) ==
  IF UsesFetcher(kind) THEN {"V4", "V2"}
  ELSE IF kind = "itemB" THEN {"V4"} ELSE {"V2"}

ReadParked ==
  /\ readKind = "none"
  /\ readPages = <<>>
  /\ received = <<>>
  /\ rlink = 0
  /\ rpc = "idle"

\* --------------------------------------------- Scenario A candidates: helpers
MaxHeaders == 2

\* a JSON value: a number, a string, or none (undefined)
Num(t) == [type |-> "number", text |-> t]

Str(t) == [type |-> "string", text |-> t]

Undefined == [type |-> "undefined", text |-> "undefined"]

\* String(v)
StringOf(v) == v.text

\* the value is truthy: defined and not the empty string
Truthy(v) == v.type # "undefined" /\ v.text # ""

\* v?.toString().trim(): the text without its blanks, "" for undefined
Trimmed(v) ==
  IF v.type = "undefined" THEN ""
  ELSE LET RECURSIVE T(_)
           T(i) == IF i > Len(v.text) THEN ""
                   ELSE (IF SubSeq(v.text, i, i) = " " THEN "" ELSE SubSeq(v.text, i, i))
                          \o T(i + 1)
       IN T(1)

Header(so, tag, customer) ==
  [SalesOrder |-> so, YY1_PrepaymentScenario_SDH |-> tag, SoldToParty |-> customer]

SalesOrderValues == {Num("100"), Str("200"), Undefined}

ScenarioTags == {Str("A"), Str(" "), Undefined}

HeaderRows == { Header(so, tag, "C1") : so \in SalesOrderValues, tag \in ScenarioTags }

Item(no, status, sfid) ==
  [SalesOrderItem |-> no, SlsOrderItemDownPaymentStatus |-> status,
   YY1_SALESFORCEID_I_SDI |-> sfid]

ItemLists ==
  { <<>>,
    << Item(10, "C", "sf1") >>,
    << Item(10, "D", "sf1"), Item(20, "C", "sf2") >>,
    << Item(10, "D", "sf1"), Item(20, "D", "sf2") >> }

\* config.filteroutSO: absent, or a list of numbers and strings
NotArray == [isArray |-> FALSE, list |-> <<>>]

ArrayOf(l) == [isArray |-> TRUE, list |-> l]

FilterOutConfigs ==
  { NotArray, ArrayOf(<<>>), ArrayOf(<< Str("100") >>), ArrayOf(<< Num("200") >>) }

\* Array.isArray(config.filteroutSO) ? config.filteroutSO.map(String) : []
FilterOutSO(cfgList) ==
  IF ~cfgList.isArray THEN {}
  ELSE { StringOf(cfgList.list[i]) : i \in 1..Len(cfgList.list) }

\* faulty variant: the exclusion list is compared without conversion
IsValidHeader_Raw(h, cfgList) ==
  /\ Trimmed(h.YY1_PrepaymentScenario_SDH) # ""
  /\ Truthy(h.SalesOrder)
  /\ \A i \in 1..Len(cfgList.list) : cfgList.list[i] # h.SalesOrder

\* the predicate of headers.filter(...)
IsValidHeader(h, cfgList) ==
  /\ Trimmed(h.YY1_PrepaymentScenario_SDH) # ""
  /\ Truthy(h.SalesOrder)
  /\ StringOf(h.SalesOrder) \notin FilterOutSO(cfgList)

\* faulty variant: the accumulator is replaced, not appended to
Pushed_Replace(list, entry) == <<entry>>

\* finalList.push(entry)
Pushed(list, entry) == Append(list, entry)

\* items.filter(it => it.SlsOrderItemDownPaymentStatus === 'D').map(...)
OpenLines(items) ==
  LET open == SelectSeq(items, LAMBDA it : it.SlsOrderItemDownPaymentStatus = "D")
  IN [i \in 1..Len(open) |->
        [SalesOrderItem |-> open[i].SalesOrderItem,
         YY1_SALESFORCEID_I_SDI |-> open[i].YY1_SALESFORCEID_I_SDI]]

\* finalList.flatMap(entry => entry.SalesOrderItems.map(item => ...))
RECURSIVE Lookups(_, _)
Lookups(list, k) ==
  IF k > Len(list) THEN <<>>
  ELSE [i \in 1..Len(list[k].SalesOrderItems) |->
          [CompanyCode |-> list[k].CompanyCode, SalesOrder |-> list[k].SalesOrder,
           Customer |-> list[k].Customer,
           SalesOrderItem |-> list[k].SalesOrderItems[i]]]
       \o Lookups(list, k + 1)

NormParked ==
  /\ companyCode = ""
  /\ filteroutSO = NotArray
  /\ headers = <<>>
  /\ itemsOfSO = <<>>
  /\ validHeaders = <<>>
  /\ unitsLeft = {}
  /\ finalList = <<>>
  /\ acctLookups = <<>>
  /\ apc = "idle"

\* ------------------------------------------------- Scenario B join: helpers
MaxXRefs == 2

BillingDocument == "B1"

ScenarioBCode == "P2"

\* the cross-reference rows of a billing document; " " and "" are blank
\* sales documents
XRefRows ==
  { XRef(so, item, "D1", "2024") : so \in {"S3", "S4", " ", ""}, item \in {10, 20} }

ItemB(no, sfid) == [SalesOrderItem |-> no, YY1_SALESFORCEID_I_SDI |-> sfid]

\* the last list holds the same line twice
ItemBLists ==
  { <<>>,
    << ItemB(10, "sf1") >>,
    << ItemB(10, "sf1"), ItemB(20, "sf2") >>,
    << ItemB(10, "") >>,
    << ItemB(10, "sf1"), ItemB(10, "sf9") >> }

\* fr.SalesDocument && fr.SalesDocument.trim() !== ''
HasSalesDocument(fr) == fr.SalesDocument \notin {"", " "}

\* validRecords.map(fr => ({ CompanyCode, BillingDocument, ... }))
Skeletons(rs) ==
  LET valid == SelectSeq(rs, HasSalesDocument)
  IN [i \in 1..Len(valid) |->
        [CompanyCode |-> ScenarioBCode, BillingDocument |-> BillingDocument,
         AccountingDocument |-> valid[i].AccountingDocument,
         FiscalYear |-> valid[i].FiscalYear,
         SalesDocument |-> valid[i].SalesDocument,
         SalesDocumentItem |-> valid[i].SalesDocumentItem]]

\* itemRecords.forEach(item => { if (item.SalesOrderItem &&
\* item.YY1_SALESFORCEID_I_SDI) itemMap[item.SalesOrderItem] = ... }): a later
\* item overwrites an earlier one with the same SalesOrderItem
ItemMapOf(items) ==
  LET kept == { i \in 1..Len(items) : items[i].YY1_SALESFORCEID_I_SDI # "" }
      keys == { items[i].SalesOrderItem : i \in kept }
  IN [n \in keys |->
        items[CHOOSE i \in kept :
                /\ items[i].SalesOrderItem = n
                /\ \A j \in kept : items[j].SalesOrderItem = n => j <= i
             ].YY1_SALESFORCEID_I_SDI]

\* faulty variant: the correlation id is never resolved
SalesforceIdOf_Never(map, result) == "null"

\* const itemMap = salesOrderItemsMap.get(result.SalesDocument);
\* const salesforceId = itemMap ? itemMap[result.SalesDocumentItem] : null;
SalesforceIdOf(map, result) ==
  IF result.SalesDocument \notin DOMAIN map THEN "null"
  ELSE IF result.SalesDocumentItem \notin DOMAIN map[result.SalesDocument]
       THEN "undefined"
       ELSE map[result.SalesDocument][result.SalesDocumentItem]

\* flatResults.map(result => ({ ... }))
Transformed(flat, map) ==
  [i \in 1..Len(flat) |->
     [CompanyCode |-> flat[i].CompanyCode,
      SalesOrder |-> flat[i].SalesDocument,
      Customer |-> "null",
      SalesOrderItem |-> flat[i].SalesDocumentItem,
      YY1_SALESFORCEID_I_SDI |-> SalesforceIdOf(map, flat[i]),
      AccountingDocument |-> flat[i].AccountingDocument,
      FiscalYear |-> flat[i].FiscalYear,
      OriginalBillingDocument |-> flat[i].BillingDocument]]

BJoinParked ==
  /\ xrefRows = <<>>
  /\ itemsB = <<>>
  /\ flatResults = <<>>
  /\ soLeft = {}
  /\ salesOrderItemsMap = <<>>
  /\ transformedResults = <<>>
  /\ bjpc = "idle"

\* ---------------------------------------------- writer and parser: helpers
MaxRecords == 2

\* a text is a sequence of characters; "LF" and "CR" are the line feed and
\* the carriage return
Comma == ","

LineFeed == "LF"

CarriageReturn == "CR"

\* the characters String.prototype.trim removes
WhiteSpace == {" ", LineFeed, CarriageReturn}

\* the values null and undefined, which are not texts
Null == << "null" >>

Missing == << "undefined" >>

\* the columns, in the order of the header line
Columns ==
  << "SalesOrder", "SalesOrderItem", "YY1_SALESFORCEID_I_SDI", "Customer",
     "AccountingDocument", "CompanyCode", "FiscalYear" >>

ColumnSet == { Columns[i] : i \in 1..Len(Columns) }

\* the header line: the column names joined by commas (one character per name)
HeaderLine ==
  << "SalesOrder", Comma, "SalesOrderItem", Comma, "YY1_SALESFORCEID_I_SDI", Comma,
     "Customer", Comma, "AccountingDocument", Comma, "CompanyCode", Comma,
     "FiscalYear" >>

\* Array.prototype.join: null and undefined are joined as the empty text
TextOf(v) == IF v \in {Null, Missing} THEN <<>> ELSE v

RECURSIVE Join(_, _)
Join(texts, sep) ==
  IF texts = <<>> THEN <<>>
  ELSE IF Len(texts) = 1 THEN TextOf(texts[1])
       ELSE TextOf(texts[1]) \o <<sep>> \o Join(Tail(texts), sep)

\* faulty variant: Customer is written before YY1_SALESFORCEID_I_SDI
LineValues_Swapped(r) ==
  << r.SalesOrder, r.SalesOrderItem, r.Customer, r.YY1_SALESFORCEID_I_SDI,
     r.AccountingDocument, r.CompanyCode, r.FiscalYear >>

\* [r.SalesOrder, r.SalesOrderItem.SalesOrderItem, ...] of the writer
LineValues(r) ==
  << r.SalesOrder, r.SalesOrderItem, r.YY1_SALESFORCEID_I_SDI, r.Customer,
     r.AccountingDocument, r.CompanyCode, r.FiscalYear >>

\* [header, ...lines].join('\n')
FileText(recs) ==
  Join(<<HeaderLine>> \o [i \in 1..Len(recs) |-> Join(LineValues(recs[i]), Comma)],
       LineFeed)

\* String.prototype.split with a one-character separator
RECURSIVE SplitOn(_, _)
SplitOn(t, sep) ==
  LET idx == { i \in 1..Len(t) : t[i] = sep }
  IN IF idx = {} THEN <<t>>
     ELSE <<SubSeq(t, 1, Min(idx) - 1)>>
            \o SplitOn(SubSeq(t, Min(idx) + 1, Len(t)), sep)

\* content.split(/\r?\n/): a carriage return right before a line feed
\* belongs to the separator
SplitLines(t) ==
  LET parts == SplitOn(t, LineFeed)
  IN [i \in 1..Len(parts) |->
        IF i < Len(parts) /\ parts[i] # <<>>
             /\ parts[i][Len(parts[i])] = CarriageReturn
        THEN SubSeq(parts[i], 1, Len(parts[i]) - 1)
        ELSE parts[i]]

\* l.trim() is not empty
NotBlank(l) == \E i \in 1..Len(l) : l[i] \notin WhiteSpace

\* the destructuring of line.split(','): a missing element is undefined
RowOf(line) ==
  LET parts == SplitOn(line, Comma)
  IN [c \in ColumnSet |->
        LET k == CHOOSE k \in 1..Len(Columns) : Columns[k] = c
        IN IF k <= Len(parts) THEN parts[k] ELSE Missing]

\* parseCsv
ParseCsv(content) ==
  LET lines == SelectSeq(SplitLines(content), NotBlank)
      body == IF lines = <<>> THEN <<>> ELSE Tail(lines)
  IN [i \in 1..Len(body) |-> RowOf(body[i])]

\* const payload = { Accountingdocument: rec.AccountingDocument, ... }
PayloadOf(r) ==
  [Accountingdocument |-> r.AccountingDocument,
   SFID_I |-> r.YY1_SALESFORCEID_I_SDI,
   Customer |-> r.Customer,
   SalesDocument |-> r.SalesOrder,
   SalesDocumentItem |-> r.SalesOrderItem,
   Companycode |-> r.CompanyCode,
   Fiscalyear |-> r.FiscalYear]

\* a record whose seven values differ from each other
PlainRecord ==
  [SalesOrder |-> <<"s">>, SalesOrderItem |-> <<"1", "0">>,
   YY1_SALESFORCEID_I_SDI |-> <<"f">>, Customer |-> <<"c">>,
   AccountingDocument |-> <<"d">>, CompanyCode |-> <<"P">>,
   FiscalYear |-> <<"2", "4">>]

\* the values tried in one column of a record: empty, with blanks, with a
\* comma, with a line feed, with a carriage return, null
OddValues ==
  { <<>>, <<" ", "x", " ">>, <<"a", Comma, "b">>, <<"a", LineFeed, "b">>,
    <<"a", CarriageReturn>>, Null }

WriterRecords ==
  {PlainRecord} \cup
  { [PlainRecord EXCEPT ![c] = v] : c \in ColumnSet, v \in OddValues } \cup
  { [c \in ColumnSet |-> v] : v \in { <<>>, <<" ">> } }

CsvParked ==
  /\ csvRecords = <<>>
  /\ csvContent = <<>>
  /\ parsedRows = <<>>
  /\ payloads = <<>>
  /\ csvpc = "idle"

TailParked ==
  variant = "current" /\ ReadParked /\ NormParked /\ BJoinParked /\ CsvParked

LateParked == FileParked /\ JoinParked /\ TailParked

ExtraParked == CfgParked /\ StageParked /\ LateParked

\* how an http.get settles: a response, or a rejection (the axios timeout of
\* 30000 ms, a transport error, a response with a non-success status)
GetOutcomes == {"ok"} \cup ErrKinds

\* the continuation link a response body carries in its own envelope
LinkOf(data) == IF data.hasValue THEN data.odataNext ELSE data.dNext

Got(page, outcome) == [page |-> page, outcome |-> outcome]

FetchParked ==
  /\ pages = <<>>
  /\ fpc = "idle"
  /\ nextLink = 0
  /\ all = <<>>
  /\ getLog = <<>>

LoopParked ==
  /\ records = 0
  /\ rec = 0
  /\ attempt = 0
  /\ postResult = NoResult
  /\ postLog = <<>>
  /\ tried = {}
  /\ inflight = {}
  /\ sendLog = <<>>

\* ------------------------------------------------------ manager: actions
\* what the output root holds before the first run: nothing, a file without
\* data rows, or a file that cannot be read
InitFiles ==
  { <<>>,
    << [part |-> "P1", nrows |-> 0, mtime |-> 1] >>,
    << [part |-> "P1", nrows |-> -1, mtime |-> 1] >> }

MgrInit ==
  /\ roster \in Rosters
  /\ files \in InitFiles
  /\ folder = 1..Len(files)
  /\ archive = {}
  /\ archNames = {}
  /\ pc = "idle"
  /\ sweepIdx = 0
  /\ olds = <<>>
  /\ ri = 0
  /\ active = 0
  /\ lastMove = "none"
  /\ successCount = 0
  /\ acked = {}
  /\ delivered = [f \in 1..Len(files) |-> {}]

\* the files the data script writes in one run: one per partition that has
\* surviving records (a partition without records gets no file), newest last
RECURSIVE Written(_, _, _)
Written(k, new, t) ==
  IF k > Len(Partitions) THEN <<>>
  ELSE IF new[k] = 0 THEN Written(k + 1, new, t)
  ELSE << [part |-> Partitions[k], nrows |-> new[k], mtime |-> t] >>
         \o Written(k + 1, new, t + 1)

\* main(): runDataScript(), then the configuration and the roster are read
StartRun ==
  /\ pc = "idle"
  /\ \E new \in [1..Len(Partitions) -> 0..MaxRows] :
       LET w == Written(1, new, Len(files) + 1) IN
       /\ Len(files) + Len(w) <= MaxFiles
       /\ files' = files \o w
       /\ folder' = folder \cup (Len(files) + 1 .. Len(files) + Len(w))
       /\ delivered' = [g \in folder \cup (Len(files) + 1 .. Len(files) + Len(w))
                          |-> IF g \in folder THEN delivered[g] ELSE {}]
  /\ pc' = "sweep"
  /\ sweepIdx' = 1
  /\ UNCHANGED <<roster, archive, archNames, olds, ri, active, lastMove, loopVars, otherVars, successCount, acked>>

\* faulty variant: only the folders of the roster rows that are processed are
\* swept
SweepDir_RosterOnly ==
  /\ pc = "sweep"
  /\ sweepIdx <= Len(Partitions)
  /\ LET csvs == CsvsIn(Partitions[sweepIdx])
         listed == \E i \in 1..Len(roster) :
                     /\ roster[i].CompanyCode = Partitions[sweepIdx]
                     /\ roster[i].InvoiceType = "EInvoice"
                     /\ roster[i].Scenario # "B"
         rest == IF csvs = {} \/ ~listed THEN <<>>
                 ELSE OldsOf(csvs, NewestOf(csvs))
     IN IF rest = <<>>
        THEN /\ sweepIdx' = sweepIdx + 1
             /\ UNCHANGED <<pc, olds>>
        ELSE /\ olds' = rest
             /\ pc' = "sweepMove"
             /\ UNCHANGED sweepIdx
  /\ UNCHANGED <<roster, files, folder, archive, archNames, ri, active, lastMove,
                 delivered, loopVars, otherVars,
                 successCount, acked>>

\* sweepArchiveAll / archiveAllButNewest / archiveOldCsvs(dirPath, null)
SweepDir ==
  /\ pc = "sweep"
  /\ sweepIdx <= Len(Partitions)
  /\ LET csvs == CsvsIn(Partitions[sweepIdx])
         rest == IF csvs = {} THEN <<>> ELSE OldsOf(csvs, NewestOf(csvs))
     IN IF rest = <<>>
        THEN /\ sweepIdx' = sweepIdx + 1
             /\ UNCHANGED <<pc, olds>>
        ELSE /\ olds' = rest
             /\ pc' = "sweepMove"
             /\ UNCHANGED sweepIdx
  /\ UNCHANGED <<roster, files, folder, archive, archNames, ri, active, lastMove,
                 delivered, loopVars, otherVars,
                 successCount, acked>>

\* faulty variant: a throw of moveFileSafe in the sweep is not caught and
\* ends main
SweepMove_Abort ==
  /\ pc = "sweepMove"
  /\ \E o \in MoveOutcomes :
       /\ MoveFile(Head(olds), o, files[Head(olds)].mtime)
       /\ IF MoveThrew(o)
          THEN /\ olds' = <<>>
               /\ pc' = "idle"
               /\ sweepIdx' = 0
          ELSE IF Tail(olds) = <<>>
               THEN /\ olds' = <<>>
                    /\ pc' = "sweep"
                    /\ sweepIdx' = sweepIdx + 1
               ELSE /\ olds' = Tail(olds)
                    /\ UNCHANGED <<pc, sweepIdx>>
  /\ UNCHANGED <<roster, files, ri, active, lastMove,
                 loopVars, otherVars, successCount, acked>>

\* archiveOldCsvs: one moveFileSafe of the loop; a throw ends the subfolder
SweepMove ==
  /\ pc = "sweepMove"
  /\ \E o \in MoveOutcomes :
       /\ MoveFile(Head(olds), o, files[Head(olds)].mtime)
       /\ IF MoveThrew(o) \/ Tail(olds) = <<>>
          THEN /\ olds' = <<>>
               /\ pc' = "sweep"
               /\ sweepIdx' = sweepIdx + 1
          ELSE /\ olds' = Tail(olds)
               /\ UNCHANGED <<pc, sweepIdx>>
  /\ UNCHANGED <<roster, files, ri, active, lastMove,
                 loopVars, otherVars, successCount, acked>>

SweepEnd ==
  /\ pc = "sweep"
  /\ sweepIdx > Len(Partitions)
  /\ pc' = "row"
  /\ sweepIdx' = 0
  /\ ri' = 1
  /\ UNCHANGED <<roster, files, folder, archive, archNames, olds, active, lastMove,
                 delivered, loopVars, otherVars,
                 successCount, acked>>

\* faulty variant: every row of the roster is passed over
SkipsRow_All(row) == TRUE

\* if (invoiceType !== 'EInvoice' || scenario === 'B') continue;
SkipsRow(row) == row.InvoiceType # "EInvoice" \/ row.Scenario = "B"

RowSkip ==
  /\ pc = "row"
  /\ ri <= Len(roster)
  /\ SkipsRow(roster[ri])
  /\ ri' = ri + 1
  /\ UNCHANGED <<roster, files, folder, archive, archNames, pc, sweepIdx, olds, active,
                 lastMove, delivered, loopVars, otherVars,
                 successCount, acked>>

\* getNewestCsvForCompany found nothing
RowNoCsv ==
  /\ pc = "row"
  /\ ri <= Len(roster)
  /\ ~SkipsRow(roster[ri])
  /\ CsvsIn(roster[ri].CompanyCode) = {}
  /\ ri' = ri + 1
  /\ UNCHANGED <<roster, files, folder, archive, archNames, pc, sweepIdx, olds, active,
                 lastMove, delivered, loopVars, otherVars,
                 successCount, acked>>

\* getNewestCsvForCompany, then archiveOldCsvs(dirPath, newestName) starts
RowSelect ==
  /\ pc = "row"
  /\ ri <= Len(roster)
  /\ ~SkipsRow(roster[ri])
  /\ CsvsIn(roster[ri].CompanyCode) # {}
  /\ LET csvs == CsvsIn(roster[ri].CompanyCode)
         newest == NewestOf(csvs)
     IN /\ active' = newest
        /\ olds' = OldsOf(csvs, newest)
        /\ pc' = IF OldsOf(csvs, newest) = <<>> THEN "parse" ELSE "archOld"
  /\ UNCHANGED <<roster, files, folder, archive, archNames, sweepIdx, ri, lastMove,
                 delivered, loopVars, otherVars,
                 successCount, acked>>

\* archiveOldCsvs(dirPath, newestName): a throw is caught by main and logged
ArchOldMove ==
  /\ pc = "archOld"
  /\ \E o \in MoveOutcomes :
       /\ MoveFile(Head(olds), o, files[Head(olds)].mtime)
       /\ IF MoveThrew(o) \/ Tail(olds) = <<>>
          THEN /\ olds' = <<>>
               /\ pc' = "parse"
          ELSE /\ olds' = Tail(olds)
               /\ UNCHANGED pc
  /\ UNCHANGED <<roster, files, sweepIdx, ri, active, lastMove, loopVars, otherVars, successCount, acked>>

\* parseCsv returned at least one record
ParseOk ==
  /\ pc = "parse"
  /\ files[active].nrows > 0
  /\ pc' = "post"
  /\ UNCHANGED <<roster, files, folder, archive, archNames, sweepIdx, olds, ri, active,
                 lastMove, delivered, loopVars, otherVars,
                 successCount, acked>>

\* faulty variant: a file without records is archived like a processed one
ParseEmpty_Archive ==
  /\ pc = "parse"
  /\ files[active].nrows = 0
  /\ \E o \in MoveOutcomes : MoveFile(active, o, Now)
  /\ pc' = "row"
  /\ ri' = ri + 1
  /\ active' = 0
  /\ UNCHANGED <<roster, files, sweepIdx, olds, lastMove, loopVars, otherVars,
                 successCount, acked>>

\* parseCsv returned no record: the file is kept, continue
ParseEmpty ==
  /\ pc = "parse"
  /\ files[active].nrows = 0
  /\ pc' = "row"
  /\ ri' = ri + 1
  /\ active' = 0
  /\ UNCHANGED <<roster, files, folder, archive, archNames, sweepIdx, olds, lastMove,
                 delivered, loopVars, otherVars,
                 successCount, acked>>

\* faulty variant: a throw of archiveCsv is not caught and ends main
ParseFail_Abort ==
  /\ pc = "parse"
  /\ files[active].nrows < 0
  /\ \E o \in MoveOutcomes :
       /\ MoveFile(active, o, Now)
       /\ lastMove' = o
       /\ pc' = IF MoveThrew(o) THEN "idle" ELSE "next"
       /\ ri' = IF MoveThrew(o) THEN 0 ELSE ri
  /\ UNCHANGED <<roster, files, sweepIdx, olds, active, loopVars, otherVars,
                 successCount, acked>>

\* parseCsv threw: archiveCsv(dirPath, newestName), its own throw is caught
ParseFail ==
  /\ pc = "parse"
  /\ files[active].nrows < 0
  /\ \E o \in MoveOutcomes :
       /\ MoveFile(active, o, Now)
       /\ lastMove' = o
  /\ pc' = "next"
  /\ UNCHANGED <<roster, files, sweepIdx, olds, ri, active, loopVars, otherVars,
                 successCount, acked>>

\* the for loop over the records of the active file (DispatchSpec has it POST
\* by POST): every record is posted in file order, successCount counts the
\* records whose postJsonWithRetry returned a response
Dispatch ==
  /\ pc = "post"
  /\ \E out \in [1..files[active].nrows -> {"resp", "thrown"}] :
       LET res == RunLoop(out, 1, files[active].nrows,
                          [count |-> 0, ok |-> {}, seen |-> {}])
       IN /\ successCount' = res.count
          /\ acked' = res.ok
          /\ delivered' = [delivered EXCEPT ![active] = @ \cup res.ok]
  /\ pc' = "postArch"
  /\ UNCHANGED <<roster, files, folder, archive, archNames, sweepIdx, olds, ri, active,
                 lastMove, loopVars, otherVars>>

\* the post-dispatch try block: archiveCsv or keep; a throw is caught and logged
PostArchive ==
  /\ pc = "postArch"
  /\ IF ShouldArchive(successCount)
     THEN \E o \in MoveOutcomes :
            /\ MoveFile(active, o, Now)
            /\ lastMove' = o
     ELSE /\ lastMove' = "none"
          /\ UNCHANGED <<folder, archive, archNames, delivered>>
  /\ pc' = "next"
  /\ UNCHANGED <<roster, files, sweepIdx, olds, ri, active, loopVars, otherVars, successCount, acked>>

\* end of the loop body: the next roster row
NextRow ==
  /\ pc = "next"
  /\ pc' = "row"
  /\ ri' = ri + 1
  /\ active' = 0
  /\ lastMove' = "none"
  /\ successCount' = 0
  /\ acked' = {}
  /\ UNCHANGED <<roster, files, folder, archive, archNames, sweepIdx, olds, delivered, loopVars, otherVars>>

\* 'All companies processed.'
RunEnd ==
  /\ pc = "row"
  /\ ri > Len(roster)
  /\ pc' = "idle"
  /\ ri' = 0
  /\ UNCHANGED <<roster, files, folder, archive, archNames, sweepIdx, olds, active,
                 lastMove, delivered, loopVars, otherVars,
                 successCount, acked>>

MgrNext ==
  \/ StartRun
  \/ SweepDir
  \/ SweepMove
  \/ SweepEnd
  \/ RowSkip
  \/ RowNoCsv
  \/ RowSelect
  \/ ArchOldMove
  \/ ParseOk
  \/ ParseEmpty
  \/ ParseFail
  \/ Dispatch
  \/ PostArchive
  \/ NextRow
  \/ RunEnd

Init == MgrInit /\ LoopParked /\ FetchParked /\ PoolParked /\ PipeParked /\ ExtraParked

Next == MgrNext

Spec == Init /\ [][Next]_vars

\* a step of main after runDataScript was called: main is one sequence of
\* awaited calls, each of which returns or throws (every request has a
\* timeout, every retry loop is bounded)
RunStep ==
  \/ SweepDir
  \/ SweepMove
  \/ SweepEnd
  \/ RowSkip
  \/ RowNoCsv
  \/ RowSelect
  \/ ArchOldMove
  \/ ParseOk
  \/ ParseEmpty
  \/ ParseFail
  \/ Dispatch
  \/ PostArchive
  \/ NextRow
  \/ RunEnd

\* the first call of main on an output root that no run has touched yet
FirstRun ==
  /\ files \in InitFiles
  /\ archive = {}
  /\ StartRun

RunNext ==
  \/ FirstRun
  \/ RunStep

\* one execution of the entry point
RunSpec == Init /\ [][RunNext]_vars /\ WF_vars(RunStep)

\* ---------------------------------------------------- dispatcher: actions
MgrParked ==
  /\ roster = <<>>
  /\ files = <<>>
  /\ folder = {}
  /\ archive = {}
  /\ archNames = {}
  /\ sweepIdx = 0
  /\ olds = <<>>
  /\ ri = 0
  /\ active = 0
  /\ lastMove = "none"
  /\ delivered = <<>>

\* the for loop is entered with the records parseCsv returned (at least one)
LoopInit ==
  /\ pc = "post"
  /\ records \in 1..MaxRows
  /\ rec = 1
  /\ attempt = 0
  /\ successCount = 0
  /\ postResult = NoResult
  /\ postLog = <<>>
  /\ acked = {}
  /\ tried = {}
  /\ inflight = {}
  /\ sendLog = <<>>

\* faulty variant: the request is issued and the loop goes on without
\* awaiting its outcome
PostSend_NoAwait ==
  /\ pc = "post"
  /\ attempt <= Retries
  /\ tried' = tried \cup {rec}
  /\ inflight' = inflight \cup {rec}
  /\ sendLog' = Append(sendLog, rec)
  /\ postLog' = Append(postLog, "ok")
  /\ postResult' = [how |-> "resp", at |-> Len(postLog) + 1, kind |-> "ok"]
  /\ pc' = "postRet"
  /\ UNCHANGED <<fsVars, otherVars, records, rec, attempt, successCount, acked>>

\* postJsonWithRetry: while (attempt <= retries) { await axios.post(...) }:
\* the request is issued and the function is suspended until it settles
PostSend ==
  /\ pc = "post"
  /\ attempt <= Retries
  /\ tried' = tried \cup {rec}
  /\ inflight' = inflight \cup {rec}
  /\ sendLog' = Append(sendLog, rec)
  /\ pc' = "await"
  /\ UNCHANGED <<fsVars, otherVars, records, rec, attempt, postResult,
                 postLog, successCount, acked>>

\* postJsonWithRetry: the axios.post settles and what follows it:
\* return resp; or attempt++, then throw err or sleep and loop
PostAttempt ==
  /\ pc = "await"
  /\ inflight' = inflight \ {rec}
  /\ \/ /\ postLog' = Append(postLog, "ok")
        /\ postResult' = [how |-> "resp", at |-> Len(postLog) + 1, kind |-> "ok"]
        /\ pc' = "postRet"
        /\ acked' = acked \cup {rec}
        /\ UNCHANGED attempt
     \/ \E e \in ErrKinds :
          /\ postLog' = Append(postLog, e)
          /\ attempt' = attempt + 1
          /\ IF RetryExhausted(attempt + 1)
             THEN /\ postResult' =
                       [how |-> "thrown", at |-> Len(postLog) + 1, kind |-> e]
                  /\ pc' = "postRet"
             ELSE /\ pc' = "post"
                  /\ UNCHANGED postResult
          /\ UNCHANGED acked
  /\ UNCHANGED <<fsVars, otherVars, records, rec, successCount, tried, sendLog>>

\* the body of "for (const rec of records)" once postJsonWithRetry settled:
\* successCount++ after a response, the catch block after a throw
RowDone ==
  /\ pc = "postRet"
  /\ successCount' =
       IF postResult.how = "resp" THEN successCount + 1 ELSE successCount
  /\ LET nxt == IF postResult.how = "resp" THEN rec + 1
                ELSE AfterCatch(rec, records)
     IN /\ rec' = nxt
        /\ pc' = IF nxt > records THEN "postArch" ELSE "post"
  /\ attempt' = 0
  /\ postLog' = <<>>
  /\ postResult' = NoResult
  /\ UNCHANGED <<fsVars, otherVars, records, acked, tried, inflight, sendLog>>

DispatchInit == MgrParked /\ LoopInit /\ FetchParked /\ PoolParked /\ PipeParked /\ ExtraParked

DispatchNext ==
  \/ PostSend
  \/ PostAttempt
  \/ RowDone

DispatchSpec == DispatchInit /\ [][DispatchNext]_vars

MgrIdle ==
  /\ pc = "idle"
  /\ successCount = 0
  /\ acked = {}

\* ------------------------------------------------- fetchAllRecords: actions
FetchInit ==
  /\ pages \in Servers
  /\ fpc = "first"
  /\ nextLink = 0
  /\ all = <<>>
  /\ getLog = <<>>

\* http.get(baseUrl, { auth, params }) is issued; the function is suspended
\* at the await
FirstGet ==
  /\ fpc = "first"
  /\ getLog' = Append(getLog, Got(1, "pending"))
  /\ fpc' = "awaitFirst"
  /\ UNCHANGED <<coreVars, extraVars, poolVars, pipeVars, pages, nextLink, all>>

\* http.get(pageUrl, { auth }) is issued inside while (nextLink)
NextGet ==
  /\ fpc = "follow"
  /\ nextLink # 0
  /\ getLog' = Append(getLog, Got(nextLink, "pending"))
  /\ fpc' = "awaitNext"
  /\ UNCHANGED <<coreVars, extraVars, poolVars, pipeVars, pages, nextLink, all>>

\* let resp = await http.get(baseUrl, { auth, params }); ... V2 fallback;
\* a rejection of http.get is not caught: fetchAllRecords throws
FirstPage ==
  /\ fpc = "awaitFirst"
  /\ \E o \in GetOutcomes :
       /\ getLog' = [getLog EXCEPT ![Len(getLog)] = Got(1, o)]
       /\ IF o = "ok"
          THEN LET r == FirstPageResult(pages[1])
               IN /\ all' = r.all
                  /\ nextLink' = r.nextLink
                  /\ fpc' = "follow"
          ELSE /\ fpc' = "threw"
               /\ UNCHANGED <<all, nextLink>>
  /\ UNCHANGED <<coreVars, extraVars, poolVars, pipeVars, pages>>

\* one turn of while (nextLink)
NextPage ==
  /\ fpc = "awaitNext"
  /\ \E o \in GetOutcomes :
       /\ getLog' = [getLog EXCEPT ![Len(getLog)] = Got(nextLink, o)]
       /\ IF o = "ok"
          THEN LET r == NextPageResult(all, pages[nextLink])
               IN /\ all' = r.all
                  /\ nextLink' = r.nextLink
                  /\ fpc' = "follow"
          ELSE /\ fpc' = "threw"
               /\ UNCHANGED <<all, nextLink>>
  /\ UNCHANGED <<coreVars, extraVars, poolVars, pipeVars, pages>>

\* return all;
FetchReturn ==
  /\ fpc = "follow"
  /\ nextLink = 0
  /\ fpc' = "returned"
  /\ UNCHANGED <<coreVars, extraVars, poolVars, pipeVars, pages, nextLink, all,
                 getLog>>

FetchNext ==
  \/ FirstGet
  \/ FirstPage
  \/ NextGet
  \/ NextPage
  \/ FetchReturn

FetchSpecInit ==
  MgrParked /\ MgrIdle /\ LoopParked /\ FetchInit /\ PoolParked /\ PipeParked /\ ExtraParked

FetchSpec == FetchSpecInit /\ [][FetchNext]_vars

\* ------------------------------------------------------------ pools: actions
PoolInit ==
  /\ pool \in Pools
  /\ nSubmitted = 0
  /\ queue = <<>>
  /\ running = {}

\* a fan-out hands k units to the pool (the two scenario paths run
\* concurrently and share the pools, so batches arrive at any time)
Submit ==
  /\ \E k \in 1..(MaxUnits - nSubmitted) :
       LET batch == [i \in 1..k |-> nSubmitted + i]
           r == Submitted(queue, running, batch)
       IN /\ queue' = r.queue
          /\ running' = r.running
          /\ nSubmitted' = nSubmitted + k
  /\ UNCHANGED <<coreVars, extraVars, fetchVars, pipeVars, pool>>

\* the pool calls the function of its oldest waiting unit when fewer than
\* its ceiling are running
Admit ==
  /\ queue # <<>>
  /\ Cardinality(running) < CeilingOf(pool)
  /\ running' = running \cup {Head(queue)}
  /\ queue' = Tail(queue)
  /\ UNCHANGED <<coreVars, extraVars, fetchVars, pipeVars, pool, nSubmitted>>

\* the promise of a running unit settles (fulfilled or rejected)
Complete(u) ==
  /\ u \in running
  /\ running' = running \ {u}
  /\ UNCHANGED <<coreVars, extraVars, fetchVars, pipeVars, pool, nSubmitted, queue>>

Settle == \E u \in 1..MaxUnits : Complete(u)

PoolNext ==
  \/ Submit
  \/ Admit
  \/ Settle

\* every request of a unit has a timeout (axios timeout: 30000), so a running
\* unit settles; the pool starts a waiting unit as soon as it has room
PoolSpecInit ==
  MgrParked /\ MgrIdle /\ LoopParked /\ FetchParked /\ PoolInit /\ PipeParked /\ ExtraParked

PoolSpec ==
  /\ PoolSpecInit
  /\ [][PoolNext]_vars
  /\ WF_vars(Admit)
  /\ WF_vars(Settle)

\* --------------------------------------------------------- pipeline: actions
PipeInit ==
  /\ rows \in PipeRosters
  /\ remote \in Remotes
  /\ dpc = "start"
  /\ npc = "idle"
  /\ bpc = "idle"
  /\ nCand = <<>>
  /\ nRes = <<>>
  /\ bCand = <<>>
  /\ bRes = <<>>
  /\ outFiles = <<>>

\* main(): the roster is split and both paths are started under Promise.all
MainStart ==
  /\ dpc = "start"
  /\ dpc' = "await"
  /\ npc' = IF NormalRows(rows) # <<>> THEN "collect" ELSE "done"
  /\ bpc' = IF ScenarioBRows(rows) # <<>> THEN "collect" ELSE "done"
  /\ UNCHANGED <<coreVars, extraVars, fetchVars, poolVars, rows, remote, nCand, nRes,
                 bCand, bRes, outFiles>>

\* processNormalScenario up to the flag filter; a failed header, item or
\* accounting-document request rejects (no try/catch)
NormalCollect ==
  /\ npc = "collect"
  /\ \/ /\ nCand' = NormalProcessed(NormalRows(rows), remote, 1)
        /\ nRes' = [i \in 1..Len(NormalProcessed(NormalRows(rows), remote, 1))
                      |-> "pending"]
        /\ npc' = "flag"
     \/ /\ npc' = "failed"
        /\ UNCHANGED <<nCand, nRes>>
  /\ UNCHANGED <<coreVars, extraVars, fetchVars, poolVars, rows, remote, dpc, bpc,
                 bCand, bRes, outFiles>>

\* one unit of the flag filter of processNormalScenario settles
NormalFlagUnit ==
  /\ npc \in {"flag", "rejected"}
  /\ \E i \in 1..Len(nCand) :
       /\ nRes[i] = "pending"
       /\ nRes' = [nRes EXCEPT ![i] =
                    FlagUnit(nCand[i], PolicyRows(variant, rows), remote, FALSE)]
  /\ UNCHANGED <<coreVars, extraVars, fetchVars, poolVars, rows, remote, dpc, npc, bpc,
                 nCand, bCand, bRes, outFiles>>

\* await Promise.all(...) of the flag filter: rejects with the first
\* rejection, resolves when every unit is fulfilled
NormalFlagSettled ==
  /\ npc = "flag"
  /\ IF \E i \in 1..Len(nCand) : nRes[i] = "rejected"
     THEN npc' = "rejected"
     ELSE /\ \A i \in 1..Len(nCand) : nRes[i] # "pending"
          /\ npc' = "done"
  /\ UNCHANGED <<coreVars, extraVars, fetchVars, poolVars, rows, remote, dpc, bpc,
                 nCand, nRes, bCand, bRes, outFiles>>

\* processScenarioB up to the flag filter: steps 1 to 3 for every roster row
ScenarioBCollect ==
  /\ bpc = "collect"
  /\ \E ok1 \in [1..Len(ScenarioBRows(rows)) -> BOOLEAN],
        ok2 \in [1..Len(remote.billing) -> BOOLEAN] :
       LET res == ScenarioBProcessed(ScenarioBRows(rows), remote, ok1, ok2, 1)
       IN /\ bCand' = res
          /\ bRes' = [i \in 1..Len(res) |->
                        IF HasScenarioBFilter(variant) THEN "pending" ELSE "kept"]
  /\ bpc' = IF HasScenarioBFilter(variant) THEN "flag" ELSE "done"
  /\ UNCHANGED <<coreVars, extraVars, fetchVars, poolVars, rows, remote, dpc, npc,
                 nCand, nRes, outFiles>>

\* one unit of the flag filter of processScenarioB settles
ScenarioBFlagUnit ==
  /\ bpc = "flag"
  /\ \E i \in 1..Len(bCand) :
       /\ bRes[i] = "pending"
       /\ bRes' = [bRes EXCEPT ![i] =
                    FlagUnit(bCand[i], PolicyRows(variant, rows), remote, TRUE)]
  /\ UNCHANGED <<coreVars, extraVars, fetchVars, poolVars, rows, remote, dpc, npc, bpc,
                 nCand, nRes, bCand, outFiles>>

ScenarioBFlagSettled ==
  /\ bpc = "flag"
  /\ \A i \in 1..Len(bCand) : bRes[i] # "pending"
  /\ bpc' = "done"
  /\ UNCHANGED <<coreVars, extraVars, fetchVars, poolVars, rows, remote, dpc, npc,
                 nCand, nRes, bCand, bRes, outFiles>>

\* the Promise.all of main rejects: main throws, nothing is written
MainReject ==
  /\ dpc = "await"
  /\ npc \in {"failed", "rejected"}
  /\ dpc' = "rejected"
  /\ UNCHANGED <<coreVars, extraVars, fetchVars, poolVars, rows, remote, npc, bpc,
                 nCand, nRes, bCand, bRes, outFiles>>

\* both paths returned: combine, group by CompanyCode, write one file per group
MainWrite ==
  /\ dpc = "await"
  /\ npc = "done"
  /\ bpc = "done"
  /\ outFiles' = Grouped(Kept(nCand, nRes) \o Kept(bCand, bRes))
  /\ dpc' = "written"
  /\ UNCHANGED <<coreVars, extraVars, fetchVars, poolVars, rows, remote, npc, bpc,
                 nCand, nRes, bCand, bRes>>

PipeNext ==
  \/ MainStart
  \/ NormalCollect
  \/ NormalFlagUnit
  \/ NormalFlagSettled
  \/ ScenarioBCollect
  \/ ScenarioBFlagUnit
  \/ ScenarioBFlagSettled
  \/ MainReject
  \/ MainWrite

PipeSpecInit ==
  MgrParked /\ MgrIdle /\ LoopParked /\ FetchParked /\ PoolParked /\ PipeInit /\ ExtraParked

PipeSpec == PipeSpecInit /\ [][PipeNext]_vars

\* the data script in either of its two copies
VariantSpecInit ==
  MgrParked /\ MgrIdle /\ LoopParked /\ FetchParked /\ PoolParked /\ PipeInit
    /\ CfgParked /\ StageParked /\ FileParked /\ JoinParked /\ ReadParked
    /\ NormParked /\ BJoinParked /\ CsvParked /\ variant \in Variants

VariantSpec == VariantSpecInit /\ [][PipeNext]_vars

\* --------------------------------------------------- collection reads: actions
ReadInit ==
  /\ readKind \in ReadKinds
  /\ \E env \in EnvelopesOf(readKind),
        sz \in UNION { [1..n -> 1..MaxPageLen] : n \in 1..MaxPages } :
       readPages = Served(env, sz)
  /\ received = <<>>
  /\ rlink = 0
  /\ rpc = "start"

\* the request of the read: the first page of fetchAllRecords, or the one
\* http.get of the executor
ReadFirst ==
  /\ rpc = "start"
  /\ IF UsesFetcher(readKind)
     THEN /\ received' = FirstPageResult(readPages[1]).all
          /\ rlink' = FirstPageResult(readPages[1]).nextLink
          /\ rpc' = "follow"
     ELSE /\ received' = PlainRead(readKind, readPages[1])
          /\ rlink' = 0
          /\ rpc' = "done"
  /\ UNCHANGED <<notReadVars, readKind, readPages>>

\* one turn of while (nextLink) of fetchAllRecords
ReadFollow ==
  /\ rpc = "follow"
  /\ rlink # 0
  /\ received' = NextPageResult(received, readPages[rlink]).all
  /\ rlink' = NextPageResult(received, readPages[rlink]).nextLink
  /\ UNCHANGED <<notReadVars, readKind, readPages, rpc>>

\* return all;
ReadReturn ==
  /\ rpc = "follow"
  /\ rlink = 0
  /\ rpc' = "done"
  /\ UNCHANGED <<notReadVars, readKind, readPages, received, rlink>>

ReadNext ==
  \/ ReadFirst
  \/ ReadFollow
  \/ ReadReturn

ReadSpecInit ==
  MgrParked /\ MgrIdle /\ LoopParked /\ FetchParked /\ PoolParked /\ PipeParked
    /\ CfgParked /\ StageParked /\ FileParked /\ JoinParked
    /\ variant = "current" /\ ReadInit /\ NormParked /\ BJoinParked /\ CsvParked

ReadSpec == ReadSpecInit /\ [][ReadNext]_vars

\* --------------------------------------------- Scenario A candidates: actions
NormInit ==
  /\ companyCode \in {"P1", ""}
  /\ filteroutSO \in FilterOutConfigs
  /\ headers \in UNION { [1..n -> HeaderRows] : n \in 0..MaxHeaders }
  /\ itemsOfSO \in [{"100", "200"} -> ItemLists]
  /\ validHeaders = <<>>
  /\ unitsLeft = {}
  /\ finalList = <<>>
  /\ acctLookups = <<>>
  /\ apc = "start"

\* if (!CompanyCode) continue;
NormSkipRow ==
  /\ apc = "start"
  /\ companyCode = ""
  /\ apc' = "fanout"
  /\ UNCHANGED <<notNormVars, companyCode, filteroutSO, headers, itemsOfSO,
                 validHeaders, unitsLeft, finalList, acctLookups>>

\* the headers of the partition are fetched and filtered; one item unit per
\* valid header is handed to soItemLimit
NormHeaders ==
  /\ apc = "start"
  /\ companyCode # ""
  /\ validHeaders' = SelectSeq(headers, LAMBDA h : IsValidHeader(h, filteroutSO))
  /\ unitsLeft' = 1..Len(validHeaders')
  /\ apc' = "items"
  /\ UNCHANGED <<notNormVars, companyCode, filteroutSO, headers, itemsOfSO,
                 finalList, acctLookups>>

\* one item unit settles, in any order: it pushes to finalList when the
\* sales order has an open down-payment line
NormItemUnit ==
  /\ apc = "items"
  /\ \E k \in unitsLeft :
       LET h == validHeaders[k]
           list == OpenLines(itemsOfSO[StringOf(h.SalesOrder)])
       IN /\ finalList' =
               IF list # <<>>
               THEN Pushed(finalList,
                      [CompanyCode |-> companyCode, SalesOrder |-> h.SalesOrder,
                       Customer |-> h.SoldToParty, SalesOrderItems |-> list])
               ELSE finalList
          /\ unitsLeft' = unitsLeft \ {k}
  /\ UNCHANGED <<notNormVars, companyCode, filteroutSO, headers, itemsOfSO,
                 validHeaders, acctLookups, apc>>

\* await Promise.all(...) of the item units returns; the loop over the rows ends
NormItemsDone ==
  /\ apc = "items"
  /\ unitsLeft = {}
  /\ apc' = "fanout"
  /\ UNCHANGED <<notNormVars, companyCode, filteroutSO, headers, itemsOfSO,
                 validHeaders, unitsLeft, finalList, acctLookups>>

\* the accounting fan-out: one lookup per line of every entry of finalList
NormAcctFanOut ==
  /\ apc = "fanout"
  /\ acctLookups' = Lookups(finalList, 1)
  /\ apc' = "acct"
  /\ UNCHANGED <<notNormVars, companyCode, filteroutSO, headers, itemsOfSO,
                 validHeaders, unitsLeft, finalList>>

NormNext ==
  \/ NormSkipRow
  \/ NormHeaders
  \/ NormItemUnit
  \/ NormItemsDone
  \/ NormAcctFanOut

NormSpecInit ==
  MgrParked /\ MgrIdle /\ LoopParked /\ FetchParked /\ PoolParked /\ PipeParked
    /\ CfgParked /\ StageParked /\ FileParked /\ JoinParked
    /\ variant = "current" /\ ReadParked /\ NormInit /\ BJoinParked /\ CsvParked

NormSpec == NormSpecInit /\ [][NormNext]_vars

\* ------------------------------------------------- Scenario B join: actions
BJoinInit ==
  /\ xrefRows \in UNION { [1..n -> XRefRows] : n \in 0..MaxXRefs }
  /\ itemsB \in [{"S3", "S4"} -> ItemBLists]
  /\ flatResults = <<>>
  /\ soLeft = {}
  /\ salesOrderItemsMap = <<>>
  /\ transformedResults = <<>>
  /\ bjpc = "step2"

\* step 2: the unit of the billing document settles; a failed request is
\* caught and yields null, which filter(Boolean) removes
BXRefUnit ==
  /\ bjpc = "step2"
  /\ \E ok \in BOOLEAN :
       flatResults' = IF ok THEN Skeletons(xrefRows) ELSE <<>>
  /\ soLeft' = { flatResults'[i].SalesDocument : i \in 1..Len(flatResults') }
  /\ bjpc' = "step3"
  /\ UNCHANGED <<notBJoinVars, xrefRows, itemsB, salesOrderItemsMap,
                 transformedResults>>

\* step 3: the item unit of one sales order settles, in any order; a failed
\* request is caught and leaves the map without an entry for it
BItemUnit ==
  /\ bjpc = "step3"
  /\ \E so \in soLeft, ok \in BOOLEAN :
       /\ salesOrderItemsMap' =
            IF ok
            THEN [k \in DOMAIN salesOrderItemsMap \cup {so} |->
                    IF k = so THEN ItemMapOf(itemsB[so])
                    ELSE salesOrderItemsMap[k]]
            ELSE salesOrderItemsMap
       /\ soLeft' = soLeft \ {so}
  /\ UNCHANGED <<notBJoinVars, xrefRows, itemsB, flatResults,
                 transformedResults, bjpc>>

\* the skeletons are transformed and pushed to scenarioBResults
BTransform ==
  /\ bjpc = "step3"
  /\ soLeft = {}
  /\ transformedResults' = Transformed(flatResults, salesOrderItemsMap)
  /\ bjpc' = "done"
  /\ UNCHANGED <<notBJoinVars, xrefRows, itemsB, flatResults, soLeft,
                 salesOrderItemsMap>>

BJoinNext ==
  \/ BXRefUnit
  \/ BItemUnit
  \/ BTransform

BJoinSpecInit ==
  MgrParked /\ MgrIdle /\ LoopParked /\ FetchParked /\ PoolParked /\ PipeParked
    /\ CfgParked /\ StageParked /\ FileParked /\ JoinParked
    /\ variant = "current" /\ ReadParked /\ NormParked /\ BJoinInit /\ CsvParked

BJoinSpec == BJoinSpecInit /\ [][BJoinNext]_vars

\* ---------------------------------------------- writer and parser: actions
\* a group of the writer has at least one record
CsvInit ==
  /\ csvRecords \in UNION { [1..n -> WriterRecords] : n \in 1..MaxRecords }
  /\ csvContent = <<>>
  /\ parsedRows = <<>>
  /\ payloads = <<>>
  /\ csvpc = "write"

\* fs.writeFileSync(fullPath, [header, ...lines].join('\n'), 'utf8')
CsvWrite ==
  /\ csvpc = "write"
  /\ csvContent' = FileText(csvRecords)
  /\ csvpc' = "parse"
  /\ UNCHANGED <<notCsvVars, csvRecords, parsedRows, payloads>>

\* records = parseCsv(newestPath)
CsvParse ==
  /\ csvpc = "parse"
  /\ parsedRows' = ParseCsv(csvContent)
  /\ csvpc' = "payload"
  /\ UNCHANGED <<notCsvVars, csvRecords, csvContent, payloads>>

\* the payload of the next record of the for loop
CsvPayload ==
  /\ csvpc = "payload"
  /\ Len(payloads) < Len(parsedRows)
  /\ payloads' = Append(payloads, PayloadOf(parsedRows[Len(payloads) + 1]))
  /\ UNCHANGED <<notCsvVars, csvRecords, csvContent, parsedRows, csvpc>>

CsvLoopEnd ==
  /\ csvpc = "payload"
  /\ Len(payloads) = Len(parsedRows)
  /\ csvpc' = "done"
  /\ UNCHANGED <<notCsvVars, csvRecords, csvContent, parsedRows, payloads>>

CsvNext ==
  \/ CsvWrite
  \/ CsvParse
  \/ CsvPayload
  \/ CsvLoopEnd

CsvSpecInit ==
  MgrParked /\ MgrIdle /\ LoopParked /\ FetchParked /\ PoolParked /\ PipeParked
    /\ CfgParked /\ StageParked /\ FileParked /\ JoinParked
    /\ variant = "current" /\ ReadParked /\ NormParked /\ BJoinParked /\ CsvInit

CsvSpec == CsvSpecInit /\ [][CsvNext]_vars

\* ------------------------------------------------------ the fan-in of main
\* both executors run under the Promise.all of main, on one Scenario-A row
\* and one Scenario-B row, each with two units in its item stage
FanInInit ==
  /\ NormInit
  /\ companyCode = "P1"
  /\ filteroutSO = NotArray
  /\ Len(headers) = 2
  /\ \A i \in 1..Len(headers) :
       /\ headers[i].YY1_PrepaymentScenario_SDH = Str("A")
       /\ headers[i].SalesOrder # Undefined
  /\ \A so \in DOMAIN itemsOfSO : Len(itemsOfSO[so]) = 2
  /\ BJoinInit
  /\ Len(xrefRows) = 2
  /\ \A i \in 1..Len(xrefRows) : HasSalesDocument(xrefRows[i])
  /\ \A so \in DOMAIN itemsB : Len(itemsB[so]) = 2

\* both paths returned: [...normalResults, ...scenarioBResults] is grouped by
\* CompanyCode and written; the accounting and flag fan-outs in between
\* return their results in the order of the units handed to Promise.all
FanInWrite ==
  /\ apc = "acct"
  /\ bjpc = "done"
  /\ outFiles' = Grouped(acctLookups \o transformedResults)
  /\ apc' = "returned"
  /\ bjpc' = "returned"
  /\ UNCHANGED <<coreVars, fetchVars, poolVars, cfgVars, stageVars, fileVars,
                 joinVars, variant, readVars, csvVars,
                 rows, remote, dpc, npc, bpc, nCand, nRes, bCand, bRes,
                 companyCode, filteroutSO, headers, itemsOfSO, validHeaders,
                 unitsLeft, finalList, acctLookups,
                 xrefRows, itemsB, flatResults, soLeft, salesOrderItemsMap,
                 transformedResults>>

FanInNext ==
  \/ NormHeaders
  \/ NormItemUnit
  \/ NormItemsDone
  \/ NormAcctFanOut
  \/ BXRefUnit
  \/ BItemUnit
  \/ BTransform
  \/ FanInWrite

FanInSpecInit ==
  MgrParked /\ MgrIdle /\ LoopParked /\ FetchParked /\ PoolParked /\ PipeParked
    /\ CfgParked /\ StageParked /\ FileParked /\ JoinParked
    /\ variant = "current" /\ ReadParked /\ CsvParked /\ FanInInit

FanInSpec == FanInSpecInit /\ [][FanInNext]_vars

\* ---------------------------------------------------- configuration: actions
CfgInit ==
  /\ cfg \in Configs
  /\ cpc = "start"
  /\ gets = FALSE
  /\ posts = FALSE

\* await runDataScript(): the data script checks its configuration and then
\* fetches; whatever it throws is caught and logged
CfgRunDataScript ==
  /\ cpc = "start"
  /\ gets' = DataConfigOk(cfg)
  /\ cpc' = "managerConfig"
  /\ UNCHANGED <<coreVars, fetchVars, poolVars, pipeVars, stageVars, lateVars,
                 cfg, posts>>

\* the manager loads config.yaml after the data script has run
CfgManagerConfig ==
  /\ cpc = "managerConfig"
  /\ cpc' = IF ManagerConfigOk(cfg) THEN "dispatch" ELSE "returned"
  /\ UNCHANGED <<coreVars, fetchVars, poolVars, pipeVars, stageVars, lateVars,
                 cfg, gets,
                 posts>>

\* the roster loop: a POST is issued when a partition folder holds a file
\* with rows
CfgDispatch ==
  /\ cpc = "dispatch"
  /\ \E deliverable \in BOOLEAN : posts' = deliverable
  /\ cpc' = "returned"
  /\ UNCHANGED <<coreVars, fetchVars, poolVars, pipeVars, stageVars, lateVars,
                 cfg, gets>>

CfgNext ==
  \/ CfgRunDataScript
  \/ CfgManagerConfig
  \/ CfgDispatch

ConfigSpecInit ==
  MgrParked /\ MgrIdle /\ LoopParked /\ FetchParked /\ PoolParked /\ PipeParked
    /\ CfgInit /\ StageParked /\ LateParked

ConfigSpec == ConfigSpecInit /\ [][CfgNext]_vars

\* ----------------------------------------------------------- stages: actions
\* main: Promise.all([processNormalScenario(...), processScenarioB(...)]),
\* both paths at their first step, the pools empty
StageInit ==
  /\ stageRows \in StageRosters
  /\ stagePos = [pa \in Paths |-> 1]
  /\ stageWaiting = [pa \in Paths |-> FALSE]
  /\ outstanding = [pa \in Paths |-> 0]
  /\ limitQueue = [p \in Pools |-> <<>>]
  /\ unitsRunning = [u \in AllUnits |-> 0]
  /\ rejectedBy = [pa \in Paths |-> "none"]

\* a path reaches its next step: the request is issued, or every unit of the
\* step is handed to the pool of the step, and the path awaits the outcome
StageFanOut(path) ==
  /\ rejectedBy[path] = "none"
  /\ ~stageWaiting[path]
  /\ stagePos[path] <= Len(ProgramOf(path, stageRows))
  /\ LET st == ProgramOf(path, stageRows)[stagePos[path]]
         p == PoolOf(st.stage)
     IN \E n \in UnitCounts(st.stage) :
          LET batch == BatchOf(path, st.stage, st.parts, n)
          IN /\ IF p = "none"
                THEN /\ unitsRunning' = Started(unitsRunning, batch)
                     /\ UNCHANGED limitQueue
                ELSE /\ limitQueue' = [limitQueue EXCEPT ![p] = @ \o batch]
                     /\ UNCHANGED unitsRunning
             /\ outstanding' = [outstanding EXCEPT ![path] = @ + Len(batch)]
  /\ stageWaiting' = [stageWaiting EXCEPT ![path] = TRUE]
  /\ UNCHANGED <<coreVars, fetchVars, poolVars, pipeVars, cfgVars, lateVars,
                 stageRows, stagePos, rejectedBy>>

\* a pool calls the function of its oldest waiting unit when fewer than its
\* ceiling are running
StageAdmit(p) ==
  /\ limitQueue[p] # <<>>
  /\ RunningIn(p) < CeilingOf(p)
  /\ unitsRunning' = Started(unitsRunning, <<Head(limitQueue[p])>>)
  /\ limitQueue' = [limitQueue EXCEPT ![p] = Tail(@)]
  /\ UNCHANGED <<coreVars, fetchVars, poolVars, pipeVars, cfgVars, lateVars,
                 stageRows, stagePos, stageWaiting, outstanding, rejectedBy>>

\* the request of a running unit settles. When it fails and the error is not
\* caught, the promise of the unit rejects and with it the Promise.all (or
\* the await) of its path: the path is left, the other units stay where they
\* are. When step 1 of processScenarioB fails, the catch of the loop body
\* leaves out the other steps of the partition.
StageSettle(u) ==
  /\ unitsRunning[u] > 0
  /\ unitsRunning' = [unitsRunning EXCEPT ![u] = @ - 1]
  /\ outstanding' = [outstanding EXCEPT ![u.path] = @ - 1]
  /\ \E ok \in BOOLEAN :
       /\ rejectedBy' =
            IF ~ok /\ ~Catches(u.path, u.stage) /\ rejectedBy[u.path] = "none"
            THEN [rejectedBy EXCEPT ![u.path] = u.stage]
            ELSE rejectedBy
       /\ stagePos' =
            IF ~ok /\ u.stage = "billing"
            THEN [stagePos EXCEPT ![u.path] = @ + SkippedAfterBilling]
            ELSE stagePos
  /\ UNCHANGED <<coreVars, fetchVars, poolVars, pipeVars, cfgVars, lateVars,
                 stageRows, stageWaiting, limitQueue>>

\* the await of a path resumes and the path goes on to its next step
StageAdvance(path) ==
  /\ rejectedBy[path] = "none"
  /\ stageWaiting[path]
  /\ Awaited(outstanding[path])
  /\ stagePos' = [stagePos EXCEPT ![path] = @ + 1]
  /\ stageWaiting' = [stageWaiting EXCEPT ![path] = FALSE]
  /\ UNCHANGED <<coreVars, fetchVars, poolVars, pipeVars, cfgVars, lateVars,
                 stageRows, outstanding, limitQueue, unitsRunning, rejectedBy>>

StageNext ==
  \/ \E path \in Paths : StageFanOut(path)
  \/ \E p \in Pools : StageAdmit(p)
  \/ \E u \in AllUnits : StageSettle(u)
  \/ \E path \in Paths : StageAdvance(path)

StageSpecInit ==
  MgrParked /\ MgrIdle /\ LoopParked /\ FetchParked /\ PoolParked /\ PipeParked
    /\ CfgParked /\ StageInit /\ LateParked

StageSpec == StageSpecInit /\ [][StageNext]_vars

\* ------------------------------------------------------ file system: actions
FileInit ==
  /\ minute = 1
  /\ msClock = 0
  /\ dirFiles = <<>>
  /\ archFiles = <<>>
  /\ created = {}
  /\ mv = NoMove
  /\ mpc = "idle"
  /\ fsLog = <<>>

\* time passes into the next minute
Tick ==
  /\ mpc = "idle"
  /\ minute < MaxWrites
  /\ minute' = minute + 1
  /\ UNCHANGED <<notFileVars, msClock, dirFiles, archFiles, created, mv, mpc,
                 fsLog>>

\* a run of the writer with records for the partition:
\* fs.writeFileSync(fullPath, [header, ...lines].join('\n'))
WriteExtract ==
  /\ mpc = "idle"
  /\ msClock < MaxWrites
  /\ msClock' = msClock + 1
  /\ \E c \in Contents :
       /\ dirFiles' = Put(dirFiles, FileName(minute),
                          [content |-> c, mtime |-> msClock + 1])
       /\ created' = created \cup {c}
  /\ UNCHANGED <<notFileVars, minute, archFiles, mv, mpc, fsLog>>

\* archiveOldCsvs moves a file that is not the newest, archiveCsv the newest
MoveBegin ==
  /\ mpc = "idle"
  /\ \E kind \in OldKinds \cup ActiveKinds : \E f \in DOMAIN dirFiles :
       /\ (kind \in ActiveKinds) <=> (f = NewestIn(dirFiles))
       /\ mv' = [src |-> f, dest |-> ArchivedName(f, StampOf(kind, f)),
                 kind |-> kind]
  /\ mpc' = "rename"
  /\ fsLog' = <<>>
  /\ UNCHANGED <<notFileVars, minute, msClock, dirFiles, archFiles, created>>

\* await fsp.rename(src, dest)
MoveRename ==
  /\ mpc = "rename"
  /\ \E ok \in BOOLEAN :
       /\ fsLog' = Append(fsLog, [op |-> "rename", ok |-> ok])
       /\ mpc' = AfterRename(ok)
       /\ IF ok
          THEN /\ archFiles' = Put(archFiles, mv.dest, dirFiles[mv.src].content)
               /\ dirFiles' = Without(dirFiles, mv.src)
          ELSE UNCHANGED <<dirFiles, archFiles>>
  /\ UNCHANGED <<notFileVars, minute, msClock, created, mv>>

\* await fsp.copyFile(src, dest)
MoveCopy ==
  /\ mpc = "copy"
  /\ mv.src \in DOMAIN dirFiles
  /\ \E ok \in BOOLEAN :
       /\ fsLog' = Append(fsLog, [op |-> "copy", ok |-> ok])
       /\ mpc' = AfterCopy(ok)
       /\ archFiles' = IF ok
                       THEN Put(archFiles, mv.dest, dirFiles[mv.src].content)
                       ELSE archFiles
  /\ UNCHANGED <<notFileVars, minute, msClock, dirFiles, created, mv>>

\* await fsp.unlink(src)
MoveUnlink ==
  /\ mpc = "unlink"
  /\ \E ok \in BOOLEAN :
       /\ fsLog' = Append(fsLog, [op |-> "unlink", ok |-> ok])
       /\ mpc' = AfterUnlink(ok)
       /\ dirFiles' = IF ok THEN Without(dirFiles, mv.src) ELSE dirFiles
  /\ UNCHANGED <<notFileVars, minute, msClock, archFiles, created, mv>>

\* moveFileSafe returns or throws to archiveOldCsvs / archiveCsv
MoveReturn ==
  /\ mpc \in {"done", "threw"}
  /\ mpc' = "idle"
  /\ mv' = NoMove
  /\ fsLog' = <<>>
  /\ UNCHANGED <<notFileVars, minute, msClock, dirFiles, archFiles, created>>

FileNext ==
  \/ Tick
  \/ WriteExtract
  \/ MoveBegin
  \/ MoveRename
  \/ MoveCopy
  \/ MoveUnlink
  \/ MoveReturn

FileSpecInit ==
  MgrParked /\ MgrIdle /\ LoopParked /\ FetchParked /\ PoolParked /\ PipeParked
    /\ CfgParked /\ StageParked /\ FileInit /\ JoinParked /\ TailParked

FileSpec == FileSpecInit /\ [][FileNext]_vars

\* --------------------------------------------------- accounting join: actions
JoinInit ==
  /\ acctResults \in AcctResultLists
  /\ jpc = "start"
  /\ acctDoc = NoDoc
  /\ warnings = {}

\* the function handed to acctLimit, after its request returned
AcctJoin ==
  /\ jpc = "start"
  /\ warnings' = WarningsOf(acctResults)
  /\ acctDoc' = DocOf(acctResults, FindNegative(acctResults))
  /\ jpc' = "joined"
  /\ UNCHANGED <<notJoinVars, acctResults>>

\* the function handed to flagLimit: if (!r.AccountingDocument) return null;
FlagGate ==
  /\ jpc = "joined"
  /\ jpc' = IF acctDoc = NoDoc THEN "dropped" ELSE "lookup"
  /\ UNCHANGED <<notJoinVars, acctResults, acctDoc, warnings>>

JoinNext ==
  \/ AcctJoin
  \/ FlagGate

JoinSpecInit ==
  MgrParked /\ MgrIdle /\ LoopParked /\ FetchParked /\ PoolParked /\ PipeParked
    /\ CfgParked /\ StageParked /\ FileParked /\ JoinInit /\ TailParked

JoinSpec == JoinSpecInit /\ [][JoinNext]_vars

\* ------------------------------------------------------------------ claims
Moved(f) == f \in archive /\ f \notin folder

AllRows(f) == 1..files[f].nrows

\* C1 (as claimed): once every row of the active file has been dispatched,
\* the file has been moved to the archive if and only if at least one row's
\* submission succeeded.
C1_MovedIffSuccess ==
  (pc = "next" /\ files[active].nrows > 0) => (Moved(active) <=> acked # {})

\* C1 (amended): once every row of the active file has been dispatched, the
\* archival move is attempted if and only if at least one row's submission
\* succeeded; with no successful row the folder and the archive are left as
\* they are; a move that succeeds (rename, or copy and delete) leaves the
\* file in the archive only, a move that fails leaves it in the folder.
C1_ArchiveGate ==
  [][pc = "postArch" =>
       /\ (lastMove' # "none") <=> (acked # {})
       /\ acked = {} => (folder' = folder /\ archive' = archive)
       /\ lastMove' \in {"renamed", "copied"} =>
            (active \in archive' /\ active \notin folder')
       /\ lastMove' \in {"copyFailed", "unlinkFailed"} => active \in folder'
    ]_vars

C1_Witness ==
  /\ pc = "next"
  /\ acked # {}
  /\ lastMove \in {"renamed", "copied"}
  /\ Moved(active)

\* C2 (as claimed): a file enters a partition's archive folder only if a
\* newer extract file of the partition exists at that moment or every row of
\* it has been successfully submitted at least once.
C2_SupersededOrAllRows ==
  [][\A f \in archive' \ archive :
       \/ HasNewerSibling(f)
       \/ (files[f].nrows >= 0 /\ delivered[f] = AllRows(f))
    ]_vars

\* C2 (amended): a file enters a partition's archive folder only if a newer
\* extract file of the partition exists at that moment, or at least one row
\* of it has been successfully submitted, or it could not be read.
C2_SupersededOrSomeRowOrPoison ==
  [][\A f \in archive' \ archive :
       \/ HasNewerSibling(f)
       \/ delivered[f] # {}
       \/ files[f].nrows < 0
    ]_vars

C2_Witness ==
  /\ pc = "next"
  /\ Moved(active)
  /\ acked # {}
  /\ acked # AllRows(active)
  /\ \A g \in folder : files[g].part # files[active].part

\* C3: no row of an extract file is successfully submitted more than once,
\* over any sequence of runs: a dispatch never gets a successful POST for a
\* row that already had one.
C3_NoRowDeliveredTwice ==
  [][pc = "post" => acked' \cap delivered[active] = {}]_vars

\* C4: for a server that returns N >= 1 pages, fetchAllRecords returns the
\* concatenation of the records of all N pages in page order, in the value /
\* @odata.nextLink envelope and in the d.results / d.__next envelope alike.
C4_PaginationComplete ==
  fpc = "returned" => all = ConcatPages(pages, 1)

\* C5: a pool never has more units running than its ceiling, for any number
\* of submitted units and any order of completion, and every submitted unit
\* is eventually started and settles.
C5_WithinCeiling == Cardinality(running) <= CeilingOf(pool)

C5_AllSettled == queue = <<>> /\ running = {}

C5_PoolCeiling ==
  /\ []C5_WithinCeiling
  /\ ~C5_AllSettled ~> C5_AllSettled

C5_Witness ==
  /\ Cardinality(running) = CeilingOf(pool)
  /\ queue # <<>>
  /\ nSubmitted > CeilingOf(pool)

\* C6: for one record postJsonWithRetry issues at least 1 and at most 3
\* POSTs, none after the first successful one, whose response it returns;
\* it throws only after 3 failed POSTs, and then the error of the last one;
\* the caller does not count a record whose call threw.
C6_Settled ==
  /\ Len(postLog) <= Retries + 1
  /\ \A i \in 1..Len(postLog) - 1 : postLog[i] # "ok"
  /\ pc = "post" => \A i \in 1..Len(postLog) : postLog[i] # "ok"
  /\ pc = "postRet" =>
       /\ Len(postLog) >= 1
       /\ postResult.how \in {"resp", "thrown"}
       /\ postResult.at = Len(postLog)
       /\ postResult.kind = postLog[Len(postLog)]
       /\ postResult.how = "resp" <=> postLog[Len(postLog)] = "ok"
       /\ postResult.how = "thrown" => Len(postLog) = Retries + 1

C6_RetryCeiling ==
  /\ []C6_Settled
  /\ [][pc = "postRet" /\ postResult.how = "thrown"
          => successCount' = successCount]_vars

C6_Witness ==
  /\ pc = "postRet"
  /\ postResult.how = "thrown"
  /\ Len(postLog) = 3

\* C7: when the submission of a record fails after its retries, every later
\* record of the file is still dispatched, and the success count of the file
\* is the number of records whose submission succeeded.
C7_FailureIsolation ==
  /\ pc = "post" => 1..(rec - 1) \subseteq tried
  /\ pc = "postArch" =>
       /\ tried = 1..records
       /\ successCount = Cardinality(acked)

C7_Witness ==
  /\ pc = "postArch"
  /\ records >= 2
  /\ 1 \notin acked
  /\ 2 \in acked
  /\ successCount = Cardinality(acked)

\* C8: a candidate with an accounting document whose flag lookup succeeded
\* is excluded when its status code is Paid, Sent or Error or when
\* FlagSFUpdated or FlagInvoiceSent is 'Yes'; where CheckFlagNA is not 'Yes'
\* for its partition, a candidate with another status and both flags other
\* than 'Yes' is retained. In both scenario paths.
C8_RuleHolds(c, res) ==
  (res # "pending" /\ c.AccountingDocument # NoDoc
     /\ remote.flags[c.AccountingDocument].ok) =>
    LET fr == FirstOrEmpty(remote.flags[c.AccountingDocument].results)
        disq == \/ fr.Statuscode \in {"Paid", "Sent", "Error"}
                \/ fr.FlagSFUpdated = "Yes"
                \/ fr.FlagInvoiceSent = "Yes"
    IN /\ disq => res = "null"
       /\ (~disq /\ ~CheckFlagNAOf(rows, c.CompanyCode)) => res = "kept"

C8_FlagExclusionRule ==
  /\ \A i \in 1..Len(nRes) : C8_RuleHolds(nCand[i], nRes[i])
  /\ \A i \in 1..Len(bRes) : C8_RuleHolds(bCand[i], bRes[i])

C8_Witness ==
  /\ \E i \in 1..Len(nRes) :
       /\ nRes[i] = "null"
       /\ nCand[i].AccountingDocument # NoDoc
       /\ remote.flags[nCand[i].AccountingDocument] =
            FlagAnswer(TRUE, << FlagRow("Open", "No", "Yes") >>)
  /\ \E i \in 1..Len(bRes) :
       /\ bRes[i] = "kept"
       /\ remote.flags[bCand[i].AccountingDocument] =
            FlagAnswer(TRUE, << FlagRow("Open", "No", "No") >>)

C9_Qualified(c) ==
  /\ c.AccountingDocument # NoDoc
  /\ remote.flags[c.AccountingDocument].ok
  /\ ~FlagExclude(FirstOrEmpty(remote.flags[c.AccountingDocument].results),
                  CheckFlagNAOf(rows, c.CompanyCode))

InFiles(c) ==
  /\ c.CompanyCode \in DOMAIN outFiles
  /\ \E i \in 1..Len(outFiles[c.CompanyCode]) : outFiles[c.CompanyCode][i] = c

\* C9: in both scenario paths, when the flag lookup of a candidate fails only
\* that candidate is dropped: once the run has ended, every candidate whose
\* lookup succeeded and that is not disqualified is in the extract files.
C9_FailClosedPerCandidate ==
  (dpc \in {"written", "rejected"} /\ npc # "failed") =>
    /\ \A i \in 1..Len(nCand) : C9_Qualified(nCand[i]) => InFiles(nCand[i])
    /\ \A i \in 1..Len(bCand) : C9_Qualified(bCand[i]) => InFiles(bCand[i])

\* C10: within one run no extract file holds two rows with the same
\* partition code, sales order and sales-order line.
C10_NoDuplicateRows ==
  dpc = "written" =>
    \A p \in DOMAIN outFiles :
      \A i, j \in 1..Len(outFiles[p]) :
        (/\ outFiles[p][i].SalesOrder = outFiles[p][j].SalesOrder
         /\ outFiles[p][i].SalesOrderItem = outFiles[p][j].SalesOrderItem)
          => i = j

\* C11: every row of an extract file comes from a candidate whose
\* accounting document and fiscal year are both set; a candidate with an
\* accounting document but no fiscal year is dropped before the merge.
C11_RowsComplete ==
  dpc = "written" =>
    \A p \in DOMAIN outFiles :
      \A i \in 1..Len(outFiles[p]) :
        /\ outFiles[p][i].AccountingDocument # NoDoc
        /\ outFiles[p][i].FiscalYear # NoFY

\* C12: a failure of a fetch stage of one partition stays within that
\* partition: once the run has ended, every partition of the other scenario
\* path whose candidates passed the flag filter has its extract file.
C12_PartitionIsolation ==
  (dpc \in {"written", "rejected"} /\ bpc = "done") =>
    \A i \in 1..Len(bCand) :
      bRes[i] = "kept" => bCand[i].CompanyCode \in DOMAIN outFiles

\* C13: in a run whose configuration lacks the credentials or a required
\* endpoint path, no GET of the fetch pipeline and no POST of the
\* dispatcher is issued.
C13_ConfigErrorsFatal ==
  (~DataConfigOk(cfg) \/ ~ManagerConfigOk(cfg)) => (~gets /\ ~posts)

NewerEver(f) ==
  \E g \in 1..Len(files) :
    files[g].part = files[f].part /\ files[g].mtime > files[f].mtime

\* C14 (as claimed): an active file that parses to zero rows is never
\* dispatched and never archived while no newer file of its partition
\* exists, and once a newer file exists it is archived as superseded: after
\* the pre-sweep no partition folder holds a zero-row file next to a newer one.
C14_EmptyFileRetention ==
  /\ pc = "post" => files[active].nrows > 0
  /\ \A f \in archive : files[f].nrows = 0 => NewerEver(f)
  /\ pc = "row" =>
       \A f \in folder : files[f].nrows = 0 => ~HasNewerSibling(f)

\* C14 (amended): an active file that parses to zero rows is left where it
\* is and no submission is issued for it; a zero-row file enters the archive
\* only when a newer file of its partition exists; once a newer file exists
\* the next pass over its folder queues it for archival, and it is moved
\* unless a move in that folder throws, which ends the pass for the folder.
C14_EmptyFileKept ==
  [][/\ \A f \in archive' \ archive :
          files[f].nrows = 0 => HasNewerSibling(f)
     /\ (pc = "parse" /\ files[active].nrows = 0) =>
          /\ pc' = "row"
          /\ folder' = folder /\ archive' = archive
          /\ acked' = {} /\ successCount' = 0
     /\ pc' = "post" => files[active'].nrows > 0
     /\ (pc = "sweep" /\ pc' = "sweepMove") =>
          \A f \in CsvsIn(Partitions[sweepIdx]) :
            (files[f].nrows = 0 /\ HasNewerSibling(f)) => f \in Range(olds')
     /\ (pc \in {"sweepMove", "archOld"} /\ files[Head(olds)].nrows = 0) =>
          \/ Head(olds) \notin folder' /\ Head(olds) \in archive'
          \/ Head(olds) \in folder' /\ olds' = <<>>
    ]_vars

C14_Witness ==
  /\ pc = "row"
  /\ ri = 2
  /\ ~SkipsRow(roster[1])
  /\ \E f \in folder \ archive :
       /\ files[f].nrows = 0
       /\ files[f].part = roster[1].CompanyCode
       /\ ~HasNewerSibling(f)

\* C15: when reading or parsing the active file throws, the move of the file
\* to the archive is attempted and made when it does not fail, no row of the
\* file is dispatched, and the run goes on with the next roster row whether
\* the move failed or not.
C15_PoisonFile ==
  [][/\ (pc = "parse" /\ files[active].nrows < 0) =>
          /\ lastMove' \in MoveOutcomes
          /\ lastMove' \in {"renamed", "copied"} =>
               (active \notin folder' /\ active \in archive')
          /\ pc' = "next"
          /\ acked' = {} /\ successCount' = 0
     /\ (pc = "next" /\ files[active].nrows < 0) =>
          (pc' = "row" /\ ri' = ri + 1)
     /\ pc' = "post" => files[active'].nrows >= 0
    ]_vars

C15_Witness ==
  /\ pc = "row"
  /\ ri = 2
  /\ \E f \in archive \ folder :
       /\ files[f].nrows < 0
       /\ ArchivedName(f, Now) \in archNames

MaxMtimeFile(S) ==
  CHOOSE f \in S : \A g \in S : files[g].mtime <= files[f].mtime

C17_ArchivedStaysArchived ==
  [][/\ \A f \in archive \ folder :
          /\ f \in archive' \ folder'
          /\ active' # f
          /\ f \notin Range(olds')
     /\ (pc = "row" /\ ri <= Len(roster)
           /\ CsvsIn(roster[ri].CompanyCode) = {}) =>
          (pc' = "row" /\ acked' = {} /\ successCount' = 0)
    ]_vars

C17_Witness ==
  /\ pc = "row"
  /\ ri <= Len(roster)
  /\ ~SkipsRow(roster[ri])
  /\ CsvsIn(roster[ri].CompanyCode) = {}
  /\ \E f \in archive \ folder :
       /\ files[f].part = roster[ri].CompanyCode
       /\ delivered = <<>> \/ files[f].nrows > 0

SendCount(q) == Cardinality({ i \in 1..Len(sendLog) : sendLog[i] = q })

\* C18: within a partition at most one submission request is in flight at
\* any time, the first attempt for a row is issued only after the final
\* attempt of every earlier row has resolved (succeeded, or failed with the
\* retries exhausted), and the requests follow the order of the rows in the
\* file.
C18_SequentialDispatch ==
  /\ Cardinality(inflight) <= 1
  /\ inflight # {} => (pc = "await" /\ inflight = {rec})
  /\ \A i \in 1..(Len(sendLog) - 1) : sendLog[i] <= sendLog[i + 1]
  /\ \A r \in tried : \A q \in 1..(r - 1) :
       /\ q \in tried
       /\ q \notin inflight
       /\ q \in acked \/ SendCount(q) = Retries + 1

C18_Witness ==
  /\ pc = "await"
  /\ inflight = {2}
  /\ 1 \notin acked
  /\ sendLog = <<1, 1, 1, 2>>

\* the stage of the claim a unit belongs to: header/item fetch, accounting
\* lookup, flag lookup
StageOf(u) ==
  CASE u.stage \in {"header", "billing", "item"} -> "fetch"
    [] u.stage \in {"acct", "xref"} -> "accounting"
    [] OTHER -> "flag"

InLoop(u) == u.stage \in {"header", "billing", "item", "xref"}

QueuedUnits == UNION { Range(limitQueue[p]) : p \in Pools }

KindOf(stage) ==
  CASE stage = "item" -> "sales-order-item"
    [] stage = "acct" -> "accounting-document"
    [] stage = "flag" -> "flag"
    [] OTHER -> "cross-reference"

\* C20: each pool serves one kind of lookup, and a unit never waits for
\* admission to a pool whose capacity is taken by units of another stage.
C20_PoolIndependence ==
  \A p \in Pools :
    LET run == { u \in RunningUnits : PoolOf(u.stage) = p }
    IN /\ \A u \in run \cup Range(limitQueue[p]) :
            \A v \in run \cup Range(limitQueue[p]) :
              KindOf(u.stage) = KindOf(v.stage)
       /\ (limitQueue[p] # <<>> /\ RunningIn(p) >= CeilingOf(p)) =>
            \A v \in run : v.stage = Head(limitQueue[p]).stage

ContentsHeld ==
  { dirFiles[n].content : n \in DOMAIN dirFiles }
    \cup { archFiles[a] : a \in DOMAIN archFiles }

\* C21: a content the writer has once written is held, in every later state,
\* by a file of the partition folder or of its archive folder.
C21_NeverDeleted == created \subseteq ContentsHeld

FsOps == [i \in 1..Len(fsLog) |-> fsLog[i].op]

\* C30: every move into an archive folder, of whichever kind, calls rename
\* first; copyFile is called exactly when rename failed, unlink exactly when
\* that copy succeeded, and nothing else is called; a move that returned has
\* taken the file from the partition folder to its archived name.
C30_RenameThenCopyDelete ==
  mpc # "idle" =>
    /\ mv.kind \in OldKinds \cup ActiveKinds
    /\ \E k \in 0..3 : FsOps = SubSeq(<<"rename", "copy", "unlink">>, 1, k)
    /\ (mpc = "rename") <=> (fsLog = <<>>)
    /\ mpc \in {"copy", "unlink", "done", "threw"} =>
         ((Len(fsLog) >= 2 \/ mpc = "copy") <=> ~fsLog[1].ok)
    /\ mpc \in {"done", "threw"} =>
         ((Len(fsLog) = 3) <=> (Len(fsLog) >= 2 /\ fsLog[2].ok))
    /\ mpc \in {"unlink"} => (Len(fsLog) = 2 /\ fsLog[2].ok)
    /\ mpc = "done" =>
         /\ fsLog[Len(fsLog)].ok
         /\ mv.src \notin DOMAIN dirFiles
         /\ mv.dest \in DOMAIN archFiles
    /\ mpc = "threw" => ~fsLog[Len(fsLog)].ok

C30_Witness ==
  /\ mpc = "done"
  /\ mv.kind = "poison"
  /\ FsOps = <<"rename", "copy", "unlink">>

InFolderOf(fs, p) == { f \in fs : files[f].part = p }

\* C22 (as claimed): when a run of the manager has finished, every partition
\* folder under the output root holds at most one extract file, whether the
\* roster has a processed row for the partition or not.
C22_AtMostOneCurrent ==
  pc = "idle" =>
    \A k \in 1..Len(Partitions) : Cardinality(CsvsIn(Partitions[k])) <= 1

\* C22 (amended): the pre-sweep passes over every partition folder, listed
\* in the roster or not; a folder it leaves without a move holds at most one
\* extract file, a folder in which every move succeeded holds exactly the
\* newest one, and no later step of the run adds a file to a folder. (A move
\* that throws ends the pass over its folder and leaves the other files.)
C22_OneCurrentUnlessMoveFailed ==
  [][/\ (pc = "sweep" /\ pc' = "sweep" /\ sweepIdx' = sweepIdx + 1) =>
          Cardinality(CsvsIn(Partitions[sweepIdx])) <= 1
     /\ (pc = "sweepMove" /\ Len(olds) = 1 /\ Head(olds) \notin folder') =>
          Cardinality(InFolderOf(folder', files[Head(olds)].part)) = 1
     /\ (pc = "sweep" /\ pc' = "row") => sweepIdx > Len(Partitions)
     /\ (pc = "sweep" /\ sweepIdx' # sweepIdx /\ pc' # "row") =>
          sweepIdx' = sweepIdx + 1
     /\ pc # "idle" => folder' \subseteq folder
    ]_vars

C22_Witness ==
  /\ pc = "idle"
  /\ \E k \in 1..Len(Partitions) :
       /\ \A i \in 1..Len(roster) :
            roster[i].CompanyCode = Partitions[k] => SkipsRow(roster[i])
       /\ Cardinality(CsvsIn(Partitions[k])) = 1
       /\ InFolderOf(archive \ folder, Partitions[k]) # {}

\* C23: when the writer has run, every partition of the roster that was
\* processed has its extract file of the run, with zero data rows when no
\* candidate of the partition survived the filter.
C23_EmptyButPresent ==
  dpc = "written" =>
    \A i \in 1..Len(rows) :
      /\ rows[i].CompanyCode \in DOMAIN outFiles
      /\ Len(outFiles[rows[i].CompanyCode]) =
           Len(SelectSeq(Kept(nCand, nRes) \o Kept(bCand, bRes),
                         LAMBDA c : c.CompanyCode = rows[i].CompanyCode))

\* C24: when a unit of an item fan-out or of an accounting fan-out of the
\* Scenario-A path fails, the units of the same pool stay queued or running
\* until they settle, and the path is not rejected by the failure: its
\* fan-in still takes place with the results of the other units.
C24_UnitErrorIsolation ==
  [][\A u \in AllUnits :
       (unitsRunning[u] > 0 /\ unitsRunning'[u] < unitsRunning[u]) =>
         /\ limitQueue' = limitQueue
         /\ \A v \in AllUnits \ {u} : unitsRunning'[v] = unitsRunning[v]
         /\ unitsRunning'[u] = unitsRunning[u] - 1
         /\ rejectedBy'[u.path] \notin {"item", "acct"}
    ]_vars

\* every running unit has one request outstanding: a unit awaits each of its
\* requests before it issues the next
TotalOutstanding == CountOf(unitsRunning, AllUnits)

RECURSIVE CeilingSum(_)
CeilingSum(ps) ==
  IF ps = {} THEN 0
  ELSE LET p == CHOOSE x \in ps : TRUE
       IN CeilingOf(p) + CeilingSum(ps \ {p})

\* C25: at every instant, with both scenario paths running, the number of
\* outstanding remote GET calls is at most the sum of the three pool
\* ceilings: no pool runs more units than its ceiling, and a path has a
\* request outside the pools only while none of its units is queued or
\* running.
C25_GlobalCap ==
  /\ TotalOutstanding <= CeilingSum(Pools)
  /\ \A u \in RunningUnits :
       PoolOf(u.stage) = "none" =>
         /\ unitsRunning[u] = 1
         /\ \A v \in (RunningUnits \cup QueuedUnits) \ {u} : v.path # u.path

C25_Witness ==
  /\ RunningIn("flagLimit") = CeilingOf("flagLimit")
  /\ limitQueue["flagLimit"] # <<>>
  /\ unitsRunning[Unit("A", "header", "P2")] = 1
  /\ TotalOutstanding = CeilingOf("flagLimit") + 1

HasRowsToSend(p) ==
  /\ CsvsIn(p) # {}
  /\ files[MaxMtimeFile(CsvsIn(p))].nrows > 0

\* C26 (as claimed): for every roster row, whatever its scenario tag and its
\* invoice-type tag, whose partition has a current extract file with at least
\* one row, the file is selected and its rows go to the dispatcher in the run.
C26_EveryRosterPartition ==
  [][(pc = "row" /\ ri <= Len(roster)
        /\ HasRowsToSend(roster[ri].CompanyCode)) =>
       (pc' \in {"archOld", "parse"}
          /\ active' = MaxMtimeFile(CsvsIn(roster[ri].CompanyCode)))
    ]_vars

\* C26 (amended): for every roster row with invoice type 'EInvoice' and a
\* scenario tag other than 'B' whose partition has a current extract file
\* with at least one row, the file is selected, parsed and handed to the
\* dispatch loop in the run, whether the move of its older siblings failed
\* or not; every other roster row is passed over without a selection and
\* without a submission.
C26_EInvoiceNonBPartition ==
  [][/\ (pc = "row" /\ ri <= Len(roster)) =>
          IF roster[ri].InvoiceType = "EInvoice" /\ roster[ri].Scenario # "B"
          THEN HasRowsToSend(roster[ri].CompanyCode) =>
                 /\ pc' \in {"archOld", "parse"}
                 /\ active' = MaxMtimeFile(CsvsIn(roster[ri].CompanyCode))
          ELSE /\ pc' = "row" /\ ri' = ri + 1
               /\ active' = active /\ acked' = acked
               /\ folder' = folder /\ archive' = archive
     /\ pc = "archOld" => (pc' \in {"archOld", "parse"} /\ active' = active)
     /\ (pc = "parse" /\ files[active].nrows > 0) =>
          (pc' = "post" /\ active' = active)
     /\ pc = "post" => (pc' = "postArch" /\ acked' \subseteq 1..files[active].nrows)
    ]_vars

C26_Witness ==
  /\ pc = "post"
  /\ ri = 2
  /\ SkipsRow(roster[1])
  /\ HasRowsToSend(roster[1].CompanyCode)
  /\ files[active].part = roster[2].CompanyCode

\* C27: when a GET of the fetch pipeline is surfaced to the stage as an
\* error, the request has been issued again at least once after it first
\* failed with a timeout or a non-success status.
C27_FetchRetry ==
  fpc = "threw" =>
    LET last == getLog[Len(getLog)]
    IN Cardinality({ i \in 1..Len(getLog) : getLog[i].page = last.page }) >= 2

NegativeAt(i) ==
  /\ i \in 1..Len(acctResults)
  /\ acctResults[i].amount < 0
  /\ \A j \in 1..(i - 1) : acctResults[j].amount >= 0

\* C28: whatever the number of accounting rows and the sum of their amounts,
\* the accounting document of the candidate is that of the first row, in
\* returned order, with a negative amount (null when that row carries
\* none); the row count and the sum only decide which warnings are logged;
\* without a row with a negative amount the accounting document is null, and
\* a candidate without accounting document is dropped by the flag filter.
C28_AccountingTieBreak ==
  jpc \in {"joined", "lookup", "dropped"} =>
    /\ \A i \in 1..Len(acctResults) :
         NegativeAt(i) =>
           acctDoc = (IF acctResults[i].AccountingDocument = "" THEN NoDoc
                      ELSE acctResults[i].AccountingDocument)
    /\ (\A i \in 1..Len(acctResults) : acctResults[i].amount >= 0) =>
         (acctDoc = NoDoc /\ jpc # "lookup")
    /\ ("count" \in warnings) <=> (Len(acctResults) # 2)
    /\ jpc = "dropped" <=> (jpc # "joined" /\ acctDoc = NoDoc)

C28_Witness ==
  /\ jpc = "lookup"
  /\ Len(acctResults) = 3
  /\ acctResults[1].amount = 10000
  /\ acctResults[2].amount = -9990
  /\ acctResults[3].amount = -10000
  /\ acctResults[2].AccountingDocument # acctResults[3].AccountingDocument
  /\ acctDoc = acctResults[2].AccountingDocument
  /\ warnings = {"count", "sum"}

\* the flag row is not disqualifying, none of its two flags is 'Yes' and
\* at least one is 'NA'
OnlyNA(fr) ==
  /\ fr.Statuscode \notin {"Paid", "Sent", "Error"}
  /\ fr.FlagSFUpdated # "Yes"
  /\ fr.FlagInvoiceSent # "Yes"
  /\ (fr.FlagSFUpdated = "NA" \/ fr.FlagInvoiceSent = "NA")

RowsOfPartition(c) == { i \in 1..Len(rows) : rows[i].CompanyCode = c.CompanyCode }

C29_RuleHolds(c, res) ==
  (/\ res # "pending"
   /\ c.AccountingDocument # NoDoc
   /\ remote.flags[c.AccountingDocument].ok
   /\ OnlyNA(FirstOrEmpty(remote.flags[c.AccountingDocument].results))) =>
    /\ RowsOfPartition(c) # {}
    /\ (\A i \in RowsOfPartition(c) : rows[i].CheckFlagNA = "Yes") => res = "null"
    /\ (\A i \in RowsOfPartition(c) : rows[i].CheckFlagNA # "Yes") => res = "kept"

\* C29: a candidate whose flag lookup succeeded with a status other than
\* Paid, Sent or Error, no flag equal to 'Yes' and at least one flag equal
\* to 'NA' is excluded when CheckFlagNA is 'Yes' in the workbook row of its
\* own partition and retained when it is not, whatever the rows of the other
\* partitions say; in both scenario paths.
C29_TriStatePolicy ==
  /\ \A i \in 1..Len(nRes) : C29_RuleHolds(nCand[i], nRes[i])
  /\ \A i \in 1..Len(bRes) : C29_RuleHolds(bCand[i], bRes[i])

C29_Witness ==
  /\ rows = << PipeRow("P1", "A", "Yes"), PipeRow("P2", "B", "No") >>
  /\ \E i \in 1..Len(nRes), j \in 1..Len(bRes) :
       /\ nCand[i].AccountingDocument = bCand[j].AccountingDocument
       /\ nCand[i].AccountingDocument # NoDoc
       /\ remote.flags[nCand[i].AccountingDocument] =
            FlagAnswer(TRUE, << FlagRow("Open", "No", "NA") >>)
       /\ nRes[i] = "null"
       /\ bRes[j] = "kept"

PendingGets == { k \in 1..Len(getLog) : getLog[k].outcome = "pending" }

\* C31: fetchAllRecords has at most one page request outstanding; the
\* request after page k is issued only once page k has been answered, and
\* for the page the continuation link of that answer names; when it returns
\* from a server of N pages it has made exactly N requests, for pages 1..N
\* in that order.
C31_CursorOrder ==
  /\ Cardinality(PendingGets) <= 1
  /\ PendingGets \subseteq {Len(getLog)}
  /\ (PendingGets # {}) <=> (fpc \in {"awaitFirst", "awaitNext"})
  /\ Len(getLog) >= 1 => getLog[1].page = 1
  /\ \A k \in 2..Len(getLog) :
       /\ getLog[k - 1].outcome = "ok"
       /\ getLog[k].page = LinkOf(pages[getLog[k - 1].page])
  /\ fpc = "returned" =>
       /\ Len(getLog) = Len(pages)
       /\ \A k \in 1..Len(getLog) : getLog[k] = Got(k, "ok")

C31_Witness ==
  /\ fpc = "returned"
  /\ Len(pages) = MaxPages
  /\ Len(getLog) = MaxPages

PassedFlagCheck(c) ==
  /\ c.AccountingDocument # NoDoc
  /\ remote.flags[c.AccountingDocument].ok
  /\ LET fr == FirstOrEmpty(remote.flags[c.AccountingDocument].results)
     IN /\ fr.Statuscode \notin {"Paid", "Sent", "Error"}
        /\ fr.FlagSFUpdated # "Yes"
        /\ fr.FlagInvoiceSent # "Yes"

\* C32: in both copies of the data script, every record of a written extract
\* file, from the Scenario-A or the Scenario-B path, has an accounting
\* document and a flag record that was fetched and does not exclude it.
C32_FlagFilterCoverage ==
  dpc = "written" =>
    \A p \in DOMAIN outFiles :
      \A i \in 1..Len(outFiles[p]) : PassedFlagCheck(outFiles[p][i])

\* C33: whichever collection the executor reads (headers, line items,
\* billing documents, cross-references, accounting documents), when the
\* result spans several pages it receives the records of all pages, in page
\* order.
C33_AllPagesReceived ==
  (rpc = "done" /\ Len(readPages) >= 2) =>
    received = ConcatPages(readPages, 1)

\* the header may yield candidates: its scenario tag is not blank, its
\* sales order is present and is not in the exclusion list
Eligible(h) ==
  /\ h.YY1_PrepaymentScenario_SDH \notin {Undefined, Str(""), Str(" ")}
  /\ h.SalesOrder \notin {Undefined, Str("")}
  /\ \A i \in 1..Len(filteroutSO.list) :
       filteroutSO.list[i].text # h.SalesOrder.text

HasOpenLine(so, no) ==
  \E j \in 1..Len(itemsOfSO[so.text]) :
    /\ itemsOfSO[so.text][j].SalesOrderItem = no
    /\ itemsOfSO[so.text][j].SlsOrderItemDownPaymentStatus = "D"

\* C34: every accounting lookup (hence every candidate) of the Scenario-A
\* path is for the partition of the row and comes from one of its headers
\* that has a non-blank scenario tag and a present sales order not in the
\* exclusion list, and from a line of that sales order whose down-payment
\* status is 'D'; a sales order without such a line has no entry in
\* finalList and no accounting lookup.
C34_ScenarioASoundness ==
  /\ \A k \in 1..Len(acctLookups) :
       /\ acctLookups[k].CompanyCode = companyCode
       /\ \E i \in 1..Len(headers) :
            /\ Eligible(headers[i])
            /\ headers[i].SalesOrder = acctLookups[k].SalesOrder
       /\ HasOpenLine(acctLookups[k].SalesOrder,
                      acctLookups[k].SalesOrderItem.SalesOrderItem)
  /\ \A k \in 1..Len(finalList) :
       /\ \E i \in 1..Len(headers) :
            /\ Eligible(headers[i])
            /\ headers[i].SalesOrder = finalList[k].SalesOrder
       /\ \E no \in {10, 20} : HasOpenLine(finalList[k].SalesOrder, no)
  /\ apc = "acct" =>
       \A so \in {"100", "200"} :
         (\A j \in 1..Len(itemsOfSO[so]) :
            itemsOfSO[so][j].SlsOrderItemDownPaymentStatus # "D") =>
           \A k \in 1..Len(acctLookups) : acctLookups[k].SalesOrder.text # so

C34_Witness ==
  /\ apc = "acct"
  /\ Len(headers) = 2
  /\ headers[1].SalesOrder = Num("100")
  /\ headers[2].SalesOrder = Str("200")
  /\ Eligible(headers[2])
  /\ headers[1].YY1_PrepaymentScenario_SDH = Str("A")
  /\ filteroutSO = ArrayOf(<< Str("100") >>)
  /\ Len(itemsOfSO["200"]) = 2
  /\ Len(acctLookups) = 1
  /\ acctLookups[1].SalesOrder = Str("200")

NonBlankRows == { i \in 1..Len(xrefRows) : xrefRows[i].SalesDocument \notin {"", " "} }

\* the correlation ids of the fetched line items with this (sales order, line)
IdsOfLine(so, line) ==
  { itemsB[so][j].YY1_SALESFORCEID_I_SDI :
      j \in { j \in 1..Len(itemsB[so]) :
                /\ itemsB[so][j].SalesOrderItem = line
                /\ itemsB[so][j].YY1_SALESFORCEID_I_SDI # "" } }

\* the part of the join that does not concern the correlation id
C35_Skeleton(r) ==
  /\ r.Customer = "null"
  /\ r.OriginalBillingDocument = BillingDocument
  /\ \E i \in NonBlankRows :
       /\ r.SalesOrder = xrefRows[i].SalesDocument
       /\ r.SalesOrderItem = xrefRows[i].SalesDocumentItem
       /\ r.AccountingDocument = xrefRows[i].AccountingDocument
       /\ r.FiscalYear = xrefRows[i].FiscalYear

C35_Joined(r, absent) ==
  /\ C35_Skeleton(r)
  /\ IF r.SalesOrder \in DOMAIN salesOrderItemsMap
        /\ IdsOfLine(r.SalesOrder, r.SalesOrderItem) # {}
     THEN r.YY1_SALESFORCEID_I_SDI \in IdsOfLine(r.SalesOrder, r.SalesOrderItem)
     ELSE r.YY1_SALESFORCEID_I_SDI \in absent

CleanRecord(r) ==
  \A c \in ColumnSet :
    /\ r[c] \notin {Null, Missing}
    /\ \A i \in 1..Len(r[c]) : r[c][i] \notin {",", "LF", "CR"}

AllClean == \A i \in 1..Len(csvRecords) : CleanRecord(csvRecords[i])

\* C36: for records whose seven values are not null and hold no comma and no
\* line break, parsing the written file yields the same records in the same
\* order with each value in the same field, and the payload built from a
\* parsed row carries AccountingDocument as Accountingdocument,
\* YY1_SALESFORCEID_I_SDI as SFID_I, Customer as Customer, SalesOrder as
\* SalesDocument, SalesOrderItem as SalesDocumentItem, CompanyCode as
\* Companycode and FiscalYear as Fiscalyear.
C36_RoundTrip ==
  AllClean =>
    /\ csvpc \in {"payload", "done"} => parsedRows = csvRecords
    /\ \A i \in 1..Len(payloads) :
         /\ i <= Len(csvRecords)
         /\ payloads[i].Accountingdocument = csvRecords[i].AccountingDocument
         /\ payloads[i].SFID_I = csvRecords[i].YY1_SALESFORCEID_I_SDI
         /\ payloads[i].Customer = csvRecords[i].Customer
         /\ payloads[i].SalesDocument = csvRecords[i].SalesOrder
         /\ payloads[i].SalesDocumentItem = csvRecords[i].SalesOrderItem
         /\ payloads[i].Companycode = csvRecords[i].CompanyCode
         /\ payloads[i].Fiscalyear = csvRecords[i].FiscalYear
    /\ csvpc = "done" => Len(payloads) = Len(csvRecords)

C36_Witness ==
  /\ csvpc = "done"
  /\ AllClean
  /\ Len(csvRecords) = 2
  /\ csvRecords[1] = [PlainRecord EXCEPT !["Customer"] = <<" ", "x", " ">>]
  /\ csvRecords[2] = [c \in ColumnSet |-> <<>>]
  /\ Len(payloads) = 2
  /\ payloads[1].Customer = <<" ", "x", " ">>

\* C37: when moveFileSafe has returned or thrown, the file is in exactly
\* one of its place in the partition folder and its archived name.
C37_SingleCopy ==
  mpc \in {"done", "threw"} =>
    (mv.src \in DOMAIN dirFiles) # (mv.dest \in DOMAIN archFiles)

BagOf(q) == [x \in Range(q) |-> Cardinality({ i \in 1..Len(q) : q[i] = x })]

\* finalList when the item units complete in the order of validHeaders
RECURSIVE InOrderList(_)
InOrderList(k) ==
  IF k > Len(validHeaders) THEN <<>>
  ELSE LET list == OpenLines(itemsOfSO[StringOf(validHeaders[k].SalesOrder)])
       IN (IF list # <<>>
           THEN << [CompanyCode |-> companyCode,
                    SalesOrder |-> validHeaders[k].SalesOrder,
                    Customer |-> validHeaders[k].SoldToParty,
                    SalesOrderItems |-> list] >>
           ELSE <<>>) \o InOrderList(k + 1)

\* the rows of the run in which every unit completes in the order it was
\* handed out
InOrderRows ==
  Lookups(InOrderList(1), 1)
    \o Transformed(Skeletons(xrefRows),
                   [so \in { xrefRows[i].SalesDocument : i \in 1..Len(xrefRows) }
                      |-> ItemMapOf(itemsB[so])])

\* no request of the Scenario-B path failed
NoFailure ==
  /\ Len(flatResults) = Len(xrefRows)
  /\ DOMAIN salesOrderItemsMap =
       { xrefRows[i].SalesDocument : i \in 1..Len(xrefRows) }

\* C38: without failures, whatever the order in which the item units of the
\* two paths complete and however the two paths interleave, each partition's
\* extract file holds the same rows, with the same multiplicities, as in the
\* run in which the units complete in the order they were handed out.
C38_InterleavingIndependence ==
  (apc = "returned" /\ NoFailure) =>
    /\ DOMAIN outFiles = DOMAIN Grouped(InOrderRows)
    /\ \A p \in DOMAIN outFiles :
         BagOf(outFiles[p]) = BagOf(Grouped(InOrderRows)[p])

C38_Witness ==
  /\ apc = "returned"
  /\ NoFailure
  /\ "P1" \in DOMAIN outFiles
  /\ "P2" \in DOMAIN outFiles
  /\ outFiles["P1"] # Grouped(InOrderRows)["P1"]
  /\ Len(outFiles["P1"]) >= 2

\* C39: a run that has started reaches 'All companies processed', whatever
\* the data script wrote or failed to write and however the moves, the parse
\* and the submissions fail; the loop takes the rows of the roster one after
\* the other, each once, and ends only after the last one.
C39_RunTerminates ==
  /\ (pc # "idle") ~> (pc = "idle")
  /\ [][/\ ri' # ri =>
             \/ pc = "sweep" /\ ri = 0 /\ ri' = 1
             \/ ri \in 1..Len(roster) /\ ri' = ri + 1
             \/ ri = Len(roster) + 1 /\ ri' = 0 /\ pc' = "idle"
        /\ (pc # "idle" /\ pc' = "idle") => ri = Len(roster) + 1
        /\ (pc = "idle" /\ pc' # "idle") => pc' = "sweep"]_vars

\* a run has ended although a move left its file in both places
C39_Witness ==
  /\ pc = "idle"
  /\ ri = 0
  /\ Len(roster) >= 2
  /\ folder \cap archive # {}

====
